---------------------------- MODULE Spec2Model ----------------------------
(***************************************************************************)
(* Model of the "Do I suck or am I unlucky?" analysis pipeline:            *)
(*   - the outcome bucket classifier (S09 bucket_game, app.py bucket_rule) *)
(*   - the S09 merge of the impact table with the probability table        *)
(*   - the S08 early-game feature builder (team resolver, snapshot         *)
(*     extractor, kill window aggregator, feature row builder, batch loop) *)
(*   - the role-normalised impact score and the team ranks (S05, S06)      *)
(*   - the cross-validated expectation model of S08 main                   *)
(*   - the luck differential of the dashboard (app.py)                     *)
(*   - the record downloaders and riot_get (get_matches, 02, S07)          *)
(*                                                                         *)
(* Probabilities and impact scores are real numbers in the program; in the *)
(* classifier, the expectation model and the luck differential they are    *)
(* modelled in hundredths (0.65 is 65, -0.5 is -50), which keeps every     *)
(* comparison against the thresholds exact.  The impact pipeline (S05,     *)
(* S06) is modelled in binary floating point of FloatBits significant      *)
(* bits, rounded to nearest even as the program's doubles are.             *)
(* An optional value (Python None / a missing dict key) is modelled as a   *)
(* sequence of length 0 or 1.                                              *)
(***************************************************************************)
EXTENDS Integers, Sequences, FiniteSets, TLC

VARIABLES
    \* ---- outcome bucket classifier, one call at a time
    b_in,           \* the arguments (p_win, win, impact) of the current call
    b_game,         \* result of S09 bucket_game on b_in  (<<>> before the call)
    b_rule,         \* result of app.py bucket_rule on b_in (<<>> before the call)
    b_tag,          \* result of app.py impact_tag on b_in.impact
    \* ---- S09 main
    impact_df,      \* data/processed/my_games_with_impact.csv (<<table>> or <<>>)
    probs_df,       \* data/processed/expected_win_probs.csv   (<<table>> or <<>>)
    df9,            \* the merged data frame of S09 main
    out_scored,     \* data/processed/my_games_scored.csv      (<<table>> or <<>>)
    pc9,            \* position of S09 main
    \* ---- S08 main: the batch loop over my_games
    my_games,       \* data/processed/my_games.csv (<<rows>> or <<>>)
    match_dir,      \* data/raw:          match id -> <<record>> or <<>>
    timeline_dir,   \* data/timeline_raw: match id -> <<record>> or <<>>
    idx8,           \* loop position in match_ids
    rows,           \* the rows list of main
    out_features,   \* data/processed/early_features_10min.csv (<<rows>> or <<>>)
    prev_features,  \* what the previous run of main wrote there (<<>>: first run)
    pc8,            \* position of S08 main
    \* ---- locals of the last build_features_for_match call
    match_json,     \* <<record>>, or <<>> when not loaded
    timeline_json,  \* <<record>>, or <<>> when not loaded
    pid_to_team,    \* participantId -> teamId
    my_team,        \* <<teamId>>, or <<>> when not resolved
    win,            \* <<flag>>, or <<>> (None)
    frame10,        \* <<frame>>, or <<>> when not extracted
    totals10,       \* <<totals>>, or <<>> when not computed
    kills_diff_10,  \* <<n>>, or <<>> when not computed
    exc,            \* the exception that ended the call ("" for none)
    \* ---- S05 / S06 main
    in_all,         \* data/processed/players_with_features.csv (<<rows>> or <<>>)
    in_me,          \* data/processed/my_games.csv as S05 / S06 read it
    all_df,         \* the all-players data frame of S06 main
    my_puuid,       \* <<puuid>> once S06 main has read it
    out_me,         \* data/processed/my_games_with_impact.csv (<<rows>> or <<>>)
    pc6,            \* position of S06 main
    exc6,           \* the exception that ended S06 main ("" for none)
    my_ranked,      \* <<my rows with their ranks>> of S05 main
    pc5,            \* position of S05 main
    \* ---- S08 main, the expectation model
    match_ids,      \* my_games["match_id"].tolist()
    built,          \* match id -> what build_features_for_match returns for it
    mt_seeded,      \* seed -> the permutations a generator with that seed draws
    df8,            \* the feature table df of S08 main
    features_csv,   \* the early_features_10min.csv file (<<rows>> or <<>>)
    warned,         \* the small-table warning has been printed
    test_folds,     \* the fold of every row
    fold,           \* the next fold of cross_val_predict
    predictions,    \* the predictions of the folds done, concatenated
    test_indices,   \* the rows of the folds done, concatenated
    p_win_cv,       \* the result of cross_val_predict
    luck8,          \* <<luck summary>> of S08 main
    out_pred,       \* the expected_win_probs.csv file (<<rows>> or <<>>)
    prev_run,       \* <<folds and table of the previous run>>
    pc_cv,          \* position of S08 main after the loop
    exc_cv,         \* the exception that ended it ("" for none)
    \* ---- app.py, luck differential
    dash_df,        \* the scored table of the dashboard
    f_df,           \* <<the filtered table>>
    full_luck,      \* <<luck_metrics of the whole table>>
    filt_luck,      \* <<luck_metrics of the filtered table>>
    msg,            \* <<the summary line>>
    pc_dash,        \* position of the dashboard script
    \* ---- the record downloaders
    dl_list,        \* <<the match ids to download>>, or <<>> without data/raw
    store,          \* match id -> the file of the record (<<>> when absent)
    store0,         \* the files at the start of the run
    retries,        \* the retries argument of riot_get (every call leaves it at its default)
    dl_i,           \* the loop index
    dl_pc,          \* position of the downloader
    dl_exc,         \* the exception that ended it ("" for none)
    rg_log,         \* the answers to the requests of the current riot_get call
    rg_waits,       \* the waits of the current riot_get call
    rg_result,      \* <<what riot_get returned>>
    run_fetches,    \* the matches riot_get was called for in this run
    dl_run,         \* the number of the run
    prev_end        \* how the previous run ended

bvars == <<b_in, b_game, b_rule, b_tag>>
s9vars == <<impact_df, probs_df, df9, out_scored, pc9>>
fvars == <<match_json, timeline_json, pid_to_team, my_team, win,
           frame10, totals10, kills_diff_10, exc>>
s8vars == <<my_games, match_dir, timeline_dir, idx8, rows,
            out_features, prev_features, pc8>>
s6vars == <<in_all, in_me, all_df, my_puuid, out_me, pc6, exc6, my_ranked, pc5>>
cvvars == <<match_ids, built, mt_seeded, df8, features_csv, warned, test_folds, fold,
            predictions, test_indices, p_win_cv, luck8, out_pred, prev_run,
            pc_cv, exc_cv>>
lvars == <<dash_df, f_df, full_luck, filt_luck, msg, pc_dash>>
dlvars == <<dl_list, store, store0, retries, dl_i, dl_pc, dl_exc, rg_log,
            rg_waits, rg_result, run_fetches, dl_run, prev_end>>
vars == <<bvars, s9vars, fvars, s8vars, s6vars, cvvars, lvars, dlvars>>

(***************************************************************************)
(* Generic helpers                                                         *)
(***************************************************************************)
\* Python dict.get(key) without default: <<value>> or <<>> (None)
Get(d, k) == IF k \in DOMAIN d THEN <<d[k]>> ELSE <<>>

\* Python dict.get(key, default)
GetOr(d, k, default) == IF k \in DOMAIN d THEN d[k] ELSE default

(***************************************************************************)
(* Outcome bucket classifier                                               *)
(***************************************************************************)
Labels == {"THROW", "UNLUCKY LOSS", "UPSET LOSS", "CLUTCH WIN", "LUCKY WIN",
           "UPSET WIN", "EXPECTED WIN", "EXPECTED LOSS", "TOSS-UP WIN",
           "TOSS-UP LOSS"}

\* app.py bucket_rule thresholds, in hundredths
HIGH_EXP == 65
LOW_EXP == 40
HIGH_IMP == 50
LOW_IMP == -50

\* A plausible slip: the generic "expected win but loss" test placed first.
bucket_game_generic_first(p, w, impact) ==
    LET high_exp == p >= 65
        low_exp == p <= 40
        high_imp == impact >= 50
        low_imp == impact <= -50
    IN  IF (~w) /\ high_exp THEN "UPSET LOSS"
        ELSE IF (~w) /\ high_exp /\ low_imp THEN "THROW"
        ELSE IF (~w) /\ high_exp /\ high_imp THEN "UNLUCKY LOSS"
        ELSE IF w /\ low_exp /\ high_imp THEN "CLUTCH WIN"
        ELSE IF w /\ low_exp /\ low_imp THEN "LUCKY WIN"
        ELSE IF w /\ low_exp THEN "UPSET WIN"
        ELSE IF w /\ high_exp THEN "EXPECTED WIN"
        ELSE IF (~w) /\ low_exp THEN "EXPECTED LOSS"
        ELSE IF w THEN "TOSS-UP WIN" ELSE "TOSS-UP LOSS"

\* The commented-out five-category scheme of S09 (lines 70-87) left active.
bucket_game_old_scheme(p, w, impact) ==
    LET high_exp == p >= 65
        low_exp == p <= 40
        high_imp == impact >= 50
        low_imp == impact <= -50
    IN  IF (~w) /\ high_exp /\ high_imp THEN "UNLUCKY LOSS"
        ELSE IF (~w) /\ high_exp /\ low_imp THEN "THROW"
        ELSE IF w /\ low_exp /\ high_imp THEN "CLUTCH WIN"
        ELSE IF w /\ low_exp /\ low_imp THEN "LUCKY WIN"
        ELSE IF (~w) /\ high_exp THEN "UPSET LOSS"
        ELSE IF w /\ low_exp THEN "UPSET WIN"
        ELSE "NORMAL"

\* a slip: the high-expectation test is strict, so 0.65 falls to the toss-ups
bucket_game_strict_high(p, w, impact) ==
    LET high_exp == p > 65
        low_exp == p <= 40
        high_imp == impact >= 50
        low_imp == impact <= -50
    IN  IF (~w) /\ high_exp /\ low_imp THEN "THROW"
        ELSE IF (~w) /\ high_exp /\ high_imp THEN "UNLUCKY LOSS"
        ELSE IF (~w) /\ high_exp THEN "UPSET LOSS"
        ELSE IF w /\ low_exp /\ high_imp THEN "CLUTCH WIN"
        ELSE IF w /\ low_exp /\ low_imp THEN "LUCKY WIN"
        ELSE IF w /\ low_exp THEN "UPSET WIN"
        ELSE IF w /\ high_exp THEN "EXPECTED WIN"
        ELSE IF (~w) /\ low_exp THEN "EXPECTED LOSS"
        ELSE IF w THEN "TOSS-UP WIN" ELSE "TOSS-UP LOSS"

\* S09 bucket_game on the row's (p_win_10min, win, impact_score)
bucket_game(p, w, impact) ==
    LET high_exp == p >= 65
        low_exp == p <= 40
        high_imp == impact >= 50
        low_imp == impact <= -50
    IN  IF (~w) /\ high_exp /\ low_imp THEN "THROW"
        ELSE IF (~w) /\ high_exp /\ high_imp THEN "UNLUCKY LOSS"
        ELSE IF (~w) /\ high_exp THEN "UPSET LOSS"
        ELSE IF w /\ low_exp /\ high_imp THEN "CLUTCH WIN"
        ELSE IF w /\ low_exp /\ low_imp THEN "LUCKY WIN"
        ELSE IF w /\ low_exp THEN "UPSET WIN"
        ELSE IF w /\ high_exp THEN "EXPECTED WIN"
        ELSE IF (~w) /\ low_exp THEN "EXPECTED LOSS"
        ELSE IF w THEN "TOSS-UP WIN" ELSE "TOSS-UP LOSS"

\* a slip: the last line does not look at the outcome
bucket_rule_win_unchecked(p_win, w, impact) ==
    LET high_exp == p_win >= HIGH_EXP
        low_exp == p_win <= LOW_EXP
        high_imp == impact >= HIGH_IMP
        low_imp == impact <= LOW_IMP
    IN  IF (~w) /\ high_exp /\ low_imp THEN "THROW"
        ELSE IF (~w) /\ high_exp /\ high_imp THEN "UNLUCKY LOSS"
        ELSE IF (~w) /\ high_exp THEN "UPSET LOSS"
        ELSE IF w /\ low_exp /\ high_imp THEN "CLUTCH WIN"
        ELSE IF w /\ low_exp /\ low_imp THEN "LUCKY WIN"
        ELSE IF w /\ low_exp THEN "UPSET WIN"
        ELSE IF w /\ high_exp THEN "EXPECTED WIN"
        ELSE IF (~w) /\ low_exp THEN "EXPECTED LOSS"
        ELSE "TOSS-UP WIN"

\* app.py bucket_rule
bucket_rule(p_win, w, impact) ==
    LET high_exp == p_win >= HIGH_EXP
        low_exp == p_win <= LOW_EXP
        high_imp == impact >= HIGH_IMP
        low_imp == impact <= LOW_IMP
    IN  IF (~w) /\ high_exp /\ low_imp THEN "THROW"
        ELSE IF (~w) /\ high_exp /\ high_imp THEN "UNLUCKY LOSS"
        ELSE IF (~w) /\ high_exp THEN "UPSET LOSS"
        ELSE IF w /\ low_exp /\ high_imp THEN "CLUTCH WIN"
        ELSE IF w /\ low_exp /\ low_imp THEN "LUCKY WIN"
        ELSE IF w /\ low_exp THEN "UPSET WIN"
        ELSE IF w /\ high_exp THEN "EXPECTED WIN"
        ELSE IF (~w) /\ low_exp THEN "EXPECTED LOSS"
        ELSE IF w THEN "TOSS-UP WIN" ELSE "TOSS-UP LOSS"

\* app.py impact_tag
impact_tag(impact) ==
    IF impact >= 50 THEN "HIGH IMPACT"
    ELSE IF impact <= -50 THEN "LOW IMPACT"
    ELSE "MID IMPACT"

\* Inputs of the classifier: every threshold with its two neighbours, and the
\* values of the documented examples (0.80, 0.20, 0.50; 0.6, -0.6, 0.0).
PWinValues == {0, 20, 39, 40, 41, 50, 64, 65, 66, 80, 100}
ImpactValues == {-60, -51, -50, -49, 0, 49, 50, 51, 60}
BucketInputs == [p_win : PWinValues, win : BOOLEAN, impact : ImpactValues]

BucketInit ==
    /\ b_in \in BucketInputs
    /\ b_game = <<>>
    /\ b_rule = <<>>
    /\ b_tag = <<>>

BucketIdle ==
    /\ b_in = [p_win |-> 50, win |-> TRUE, impact |-> 0]
    /\ b_game = <<>>
    /\ b_rule = <<>>
    /\ b_tag = <<>>

\* S09 main line 110: bucket_game applied to one row
CallBucketGame ==
    /\ b_game = <<>>
    /\ b_game' = <<bucket_game(b_in.p_win, b_in.win, b_in.impact)>>
    /\ UNCHANGED <<b_in, b_rule, b_tag>>
    /\ UNCHANGED <<s9vars, s8vars, fvars, s6vars, cvvars, lvars, dlvars>>

\* app.py lines 294-297: bucket_rule applied to one row
CallBucketRule ==
    /\ b_rule = <<>>
    /\ b_rule' = <<bucket_rule(b_in.p_win, b_in.win, b_in.impact)>>
    /\ UNCHANGED <<b_in, b_game, b_tag>>
    /\ UNCHANGED <<s9vars, s8vars, fvars, s6vars, cvvars, lvars, dlvars>>

\* app.py line 300: impact_tag applied to one row
CallImpactTag ==
    /\ b_tag = <<>>
    /\ b_tag' = <<impact_tag(b_in.impact)>>
    /\ UNCHANGED <<b_in, b_game, b_rule>>
    /\ UNCHANGED <<s9vars, s8vars, fvars, s6vars, cvvars, lvars, dlvars>>

\* the next row of the table is classified
NextBucketInput ==
    /\ b_game # <<>>
    /\ b_rule # <<>>
    /\ b_tag # <<>>
    /\ b_in' \in BucketInputs
    /\ b_game' = <<>>
    /\ b_rule' = <<>>
    /\ b_tag' = <<>>
    /\ UNCHANGED <<s9vars, s8vars, fvars, s6vars, cvvars, lvars, dlvars>>


(***************************************************************************)
(* S09 main: merge the impact table with the probability table, label      *)
(* every merged row, save the scored table                                 *)
(***************************************************************************)
MaxRows9 == 2
MatchIds9 == 1..MaxRows9

\* values on and next to the thresholds
PWinValues9 == {40, 41, 64, 65}
ImpactValues9 == {-50, -49, 49, 50}

RECURSIVE SeqOfKeyed(_, _)
\* the rows f[k], k in S, as a table in increasing order of k
SeqOfKeyed(S, f) ==
    IF S = {} THEN <<>>
    ELSE LET k == CHOOSE x \in S : \A y \in S : x <= y
         IN  <<f[k]>> \o SeqOfKeyed(S \ {k}, f)

ImpactRows(k) == [match_id : {k}, win : BOOLEAN, impact_score : ImpactValues9]
ProbRows(k) == [match_id : {k}, p_win_10min : PWinValues9]

\* the tables S06 and S08 can have written: one row per match, in file order
ImpactTables ==
    UNION { { SeqOfKeyed(S, f) : f \in { g \in [S -> UNION {ImpactRows(k) : k \in S}] :
                                          \A k \in S : g[k].match_id = k } } :
            S \in SUBSET MatchIds9 }
ProbTables ==
    UNION { { SeqOfKeyed(S, f) : f \in { g \in [S -> UNION {ProbRows(k) : k \in S}] :
                                          \A k \in S : g[k].match_id = k } } :
            S \in SUBSET MatchIds9 }

RECURSIVE MatchesOf(_, _)
\* the rows of the right table with the left row's match_id, in right order
MatchesOf(l, R) ==
    IF R = <<>> THEN <<>>
    ELSE (IF Head(R).match_id = l.match_id
          THEN <<[match_id |-> l.match_id, win |-> l.win,
                  impact_score |-> l.impact_score,
                  p_win_10min |-> Head(R).p_win_10min]>>
          ELSE <<>>) \o MatchesOf(l, Tail(R))

\* a slip: the rows are paired by position, not by match_id
MergeByPosition(L, R) ==
    [i \in 1..(IF Len(L) < Len(R) THEN Len(L) ELSE Len(R)) |->
        [match_id |-> L[i].match_id, win |-> L[i].win,
         impact_score |-> L[i].impact_score,
         p_win_10min |-> R[i].p_win_10min]]

RECURSIVE MergeInner(_, _)
\* impact_df.merge(probs_df[["match_id", "p_win_10min"]], on="match_id", how="inner")
MergeInner(L, R) ==
    IF L = <<>> THEN <<>>
    ELSE MatchesOf(Head(L), R) \o MergeInner(Tail(L), R)

\* df["bucket"] = df.apply(bucket_game, axis=1)
ApplyBucket(df) ==
    [i \in 1..Len(df) |->
        [match_id |-> df[i].match_id, win |-> df[i].win,
         impact_score |-> df[i].impact_score,
         p_win_10min |-> df[i].p_win_10min,
         bucket |-> bucket_game(df[i].p_win_10min, df[i].win, df[i].impact_score)]]

S09Init ==
    /\ impact_df \in {<<>>} \cup { <<t>> : t \in ImpactTables }
    /\ probs_df \in {<<>>} \cup { <<t>> : t \in ProbTables }
    /\ df9 = <<>>
    /\ out_scored = <<>>
    /\ pc9 = "start"

S09Idle ==
    /\ impact_df = <<>>
    /\ probs_df = <<>>
    /\ df9 = <<>>
    /\ out_scored = <<>>
    /\ pc9 = "idle"

\* lines 94-97: a missing input table is fatal
S09MissingInput ==
    /\ pc9 = "start"
    /\ impact_df = <<>> \/ probs_df = <<>>
    /\ pc9' = "raised"
    /\ UNCHANGED <<impact_df, probs_df, df9, out_scored>>
    /\ UNCHANGED <<bvars, s8vars, fvars, s6vars, cvvars, lvars, dlvars>>

\* lines 99-107: read both tables and merge on match_id
S09Merge ==
    /\ pc9 = "start"
    /\ impact_df # <<>>
    /\ probs_df # <<>>
    /\ df9' = MergeInner(impact_df[1], probs_df[1])
    /\ pc9' = "merged"
    /\ UNCHANGED <<impact_df, probs_df, out_scored>>
    /\ UNCHANGED <<bvars, s8vars, fvars, s6vars, cvvars, lvars, dlvars>>

\* line 110: every merged row is labelled
S09Bucket ==
    /\ pc9 = "merged"
    /\ df9' = ApplyBucket(df9)
    /\ pc9' = "bucketed"
    /\ UNCHANGED <<impact_df, probs_df, out_scored>>
    /\ UNCHANGED <<bvars, s8vars, fvars, s6vars, cvvars, lvars, dlvars>>

\* line 110 on an empty merge: DataFrame.apply returns an empty frame, and
\* assigning a frame to one column raises in the pandas versions that refuse it
S09BucketEmptyRaises ==
    /\ pc9 = "merged"
    /\ df9 = <<>>
    /\ pc9' = "raised"
    /\ UNCHANGED <<impact_df, probs_df, df9, out_scored>>
    /\ UNCHANGED <<bvars, s8vars, fvars, s6vars, cvvars, lvars, dlvars>>

\* line 113: the scored table is saved
S09Save ==
    /\ pc9 = "bucketed"
    /\ out_scored' = <<df9>>
    /\ pc9' = "saved"
    /\ UNCHANGED <<impact_df, probs_df, df9>>
    /\ UNCHANGED <<bvars, s8vars, fvars, s6vars, cvvars, lvars, dlvars>>


(***************************************************************************)
(* S08: early-game feature builder                                         *)
(***************************************************************************)
TARGET_MINUTE == 10
TARGET_MS == TARGET_MINUTE * 60 * 1000

\* the default of ev.get("timestamp", 10**12): any value past the cutoff
\* behaves alike; 10**12 itself exceeds the model checker's integers
NO_TIMESTAMP == 1000000000

\* match_json.get("info", {}).get("participants", [])
Participants(match) ==
    IF "info" \in DOMAIN match THEN GetOr(match.info, "participants", <<>>) ELSE <<>>

\* timeline_json.get("info", {}).get("frames", [])
Frames(timeline) ==
    IF "info" \in DOMAIN timeline THEN GetOr(timeline.info, "frames", <<>>) ELSE <<>>

\* d[k] = v on a Python dict
DictSet(d, k, v) == [x \in (DOMAIN d) \cup {k} |-> IF x = k THEN v ELSE d[x]]

RECURSIVE TeamMapLoop(_, _)
TeamMapLoop(ps, acc) ==
    IF ps = <<>> THEN acc
    ELSE TeamMapLoop(Tail(ps), DictSet(acc, Head(ps).participantId, Head(ps).teamId))

\* get_team_map_from_match
get_team_map_from_match(match) == TeamMapLoop(Participants(match), <<>>)

RECURSIVE MyTeamLoop(_, _)
MyTeamLoop(ps, puuid) ==
    IF ps = <<>> THEN [raised |-> TRUE, value |-> <<>>]
    ELSE IF Head(ps).puuid = puuid
         THEN [raised |-> FALSE, value |-> <<Head(ps).teamId>>]
         ELSE MyTeamLoop(Tail(ps), puuid)

RECURSIVE MyTeamLoopLast(_, _, _)
MyTeamLoopLast(ps, puuid, found) ==
    IF ps = <<>> THEN found
    ELSE MyTeamLoopLast(Tail(ps), puuid,
                        IF Head(ps).puuid = puuid
                        THEN [raised |-> FALSE, value |-> <<Head(ps).teamId>>]
                        ELSE found)

\* a slip: the loop does not return at the first match, the last one wins
get_my_team_id_last(match, puuid) ==
    MyTeamLoopLast(Participants(match), puuid, [raised |-> TRUE, value |-> <<>>])

\* a slip: falls back to the first participant's team instead of raising
get_my_team_id_fallback(match, puuid) ==
    LET r == MyTeamLoop(Participants(match), puuid)
    IN  IF r.raised /\ Participants(match) # <<>>
        THEN [raised |-> FALSE, value |-> <<Head(Participants(match)).teamId>>]
        ELSE r

\* get_my_team_id: raises ValueError when no participant has the puuid
get_my_team_id(match, puuid) == MyTeamLoop(Participants(match), puuid)

RECURSIVE WinLoopLastAcc(_, _, _)
WinLoopLastAcc(ps, puuid, found) ==
    IF ps = <<>> THEN found
    ELSE WinLoopLastAcc(Tail(ps), puuid,
                        IF Head(ps).puuid = puuid
                        THEN <<GetOr(Head(ps), "win", FALSE) = TRUE>>
                        ELSE found)

\* a slip: the loop has no break, the last matching participant's win is kept
WinLoopLast(ps, puuid) == WinLoopLastAcc(ps, puuid, <<>>)

RECURSIVE WinLoop(_, _)
\* build_features_for_match lines 162-166: win of the first matching participant
WinLoop(ps, puuid) ==
    IF ps = <<>> THEN <<>>
    ELSE IF Head(ps).puuid = puuid THEN <<GetOr(Head(ps), "win", FALSE) = TRUE>>
         ELSE WinLoop(Tail(ps), puuid)

\* a slip: the minute taken as a 1-based position, frames[minute - 1]
frame_at_minute_off_by_one(timeline, minute) ==
    LET frames == Frames(timeline)
    IN  IF frames = <<>> THEN [raised |-> TRUE, value |-> <<>>]
        ELSE IF minute < Len(frames)
             THEN [raised |-> FALSE, value |-> <<frames[minute]>>]
             ELSE [raised |-> FALSE, value |-> <<frames[Len(frames)]>>]

\* frame_at_minute: frames[minute] (0-based) or frames[-1]; raises on no frames
frame_at_minute(timeline, minute) ==
    LET frames == Frames(timeline)
    IN  IF frames = <<>> THEN [raised |-> TRUE, value |-> <<>>]
        ELSE IF minute < Len(frames)
             THEN [raised |-> FALSE, value |-> <<frames[minute + 1]>>]
             ELSE [raised |-> FALSE, value |-> <<frames[Len(frames)]>>]

RECURSIVE IntOf(_)
\* int(pid_str) on a string of decimal digits (given as the digit sequence)
IntOf(digits) ==
    IF digits = <<>> THEN 0
    ELSE 10 * IntOf(SubSeq(digits, 1, Len(digits) - 1)) + digits[Len(digits)]

ZeroTotals == [t \in {100, 200} |-> [gold |-> 0, xp |-> 0, cs |-> 0]]

\* a slip: jungle minions left out of cs
AddParticipantFrameNoJungle(totals, pid_str, pf, map) ==
    LET pid == IntOf(pid_str)
        team == Get(map, pid)
    IN  IF team = <<>> \/ team[1] \notin {100, 200} THEN totals
        ELSE [totals EXCEPT ![team[1]] = [gold |-> @.gold + GetOr(pf, "totalGold", 0),
                                           xp |-> @.xp + GetOr(pf, "xp", 0),
                                           cs |-> @.cs + GetOr(pf, "minionsKilled", 0)]]

\* one iteration of the loop of team_totals_from_frame, lines 96-108
AddParticipantFrame(totals, pid_str, pf, map) ==
    LET pid == IntOf(pid_str)
        team == Get(map, pid)
    IN  IF team = <<>> \/ team[1] \notin {100, 200} THEN totals
        ELSE LET gold == GetOr(pf, "totalGold", 0)
                 xp == GetOr(pf, "xp", 0)
                 cs == GetOr(pf, "minionsKilled", 0) + GetOr(pf, "jungleMinionsKilled", 0)
             IN  [totals EXCEPT ![team[1]] = [gold |-> @.gold + gold,
                                               xp |-> @.xp + xp,
                                               cs |-> @.cs + cs]]

RECURSIVE TotalsLoop(_, _, _, _)
\* for pid_str, pf in participant_frames.items()
TotalsLoop(keys, pfs, map, totals) ==
    IF keys = {} THEN totals
    ELSE LET k == CHOOSE x \in keys : TRUE
         IN  TotalsLoop(keys \ {k}, pfs, map, AddParticipantFrame(totals, k, pfs[k], map))

\* team_totals_from_frame
team_totals_from_frame(frame, map) ==
    LET participant_frames == GetOr(frame, "participantFrames", <<>>)
    IN  TotalsLoop(DOMAIN participant_frames, participant_frames, map, ZeroTotals)

EnemyOf(team) == IF team = 100 THEN 200 ELSE 100

\* a slip: the cutoff test is strict, so an event at exactly 10:00 is dropped
CountEventStrict(ev, map, team, acc) ==
    IF Get(ev, "type") # <<"CHAMPION_KILL">> THEN acc
    ELSE IF GetOr(ev, "timestamp", NO_TIMESTAMP) >= TARGET_MS THEN acc
    ELSE IF Get(ev, "killerId") = <<>> \/ Get(ev, "killerId") = <<0>> THEN acc
    ELSE LET killer_team == Get(map, ev.killerId)
         IN  IF killer_team = <<team>> THEN [acc EXCEPT !.my_kills = @ + 1]
             ELSE IF killer_team = <<EnemyOf(team)>> THEN [acc EXCEPT !.enemy_kills = @ + 1]
             ELSE acc

\* one iteration of the event loop of kills_diff_up_to_10min, lines 127-140
CountEvent(ev, map, team, acc) ==
    IF Get(ev, "type") # <<"CHAMPION_KILL">> THEN acc
    ELSE IF GetOr(ev, "timestamp", NO_TIMESTAMP) > TARGET_MS THEN acc
    ELSE IF Get(ev, "killerId") = <<>> \/ Get(ev, "killerId") = <<0>> THEN acc
    ELSE LET killer_team == Get(map, ev.killerId)
         IN  IF killer_team = <<team>> THEN [acc EXCEPT !.my_kills = @ + 1]
             ELSE IF killer_team = <<EnemyOf(team)>> THEN [acc EXCEPT !.enemy_kills = @ + 1]
             ELSE acc

RECURSIVE EventLoop(_, _, _, _)
EventLoop(evs, map, team, acc) ==
    IF evs = <<>> THEN acc
    ELSE EventLoop(Tail(evs), map, team, CountEvent(Head(evs), map, team, acc))

\* a slip: only the events of the snapshot frame are counted
FrameLoopSnapshotOnly(frames, map, team, acc) ==
    IF frames = <<>> THEN acc
    ELSE LET snapshot == IF TARGET_MINUTE < Len(frames)
                         THEN frames[TARGET_MINUTE + 1] ELSE frames[Len(frames)]
         IN  EventLoop(GetOr(snapshot, "events", <<>>), map, team, acc)

RECURSIVE FrameLoop(_, _, _, _)
FrameLoop(frames, map, team, acc) ==
    IF frames = <<>> THEN acc
    ELSE FrameLoop(Tail(frames), map, team,
                   EventLoop(GetOr(Head(frames), "events", <<>>), map, team, acc))

\* kills_diff_up_to_10min
kills_diff_up_to_10min(timeline, map, team) ==
    LET acc == FrameLoop(Frames(timeline), map, team, [my_kills |-> 0, enemy_kills |-> 0])
    IN  acc.my_kills - acc.enemy_kills


NoLocals ==
    [outcome |-> "none", match_json |-> <<>>, timeline_json |-> <<>>,
     pid_to_team |-> <<>>, my_team |-> <<>>, win |-> <<>>, frame10 |-> <<>>,
     totals10 |-> <<>>, kills_diff_10 |-> <<>>, exc |-> "", row |-> <<>>]

\* lines 174-187 with the subtraction of line 174 reversed
FeatureRowReversed(match_id, w, totals, team, kills) ==
    [match_id |-> match_id,
     win |-> w,
     gold_diff_10 |-> totals[EnemyOf(team)].gold - totals[team].gold,
     xp_diff_10 |-> totals[team].xp - totals[EnemyOf(team)].xp,
     cs_diff_10 |-> totals[team].cs - totals[EnemyOf(team)].cs,
     kills_diff_10 |-> kills]

\* build_features_for_match lines 174-187: the differentials and the row
FeatureRow(match_id, w, totals, team, kills) ==
    [match_id |-> match_id,
     win |-> w,
     gold_diff_10 |-> totals[team].gold - totals[EnemyOf(team)].gold,
     xp_diff_10 |-> totals[team].xp - totals[EnemyOf(team)].xp,
     cs_diff_10 |-> totals[team].cs - totals[EnemyOf(team)].cs,
     kills_diff_10 |-> kills]

\* line 151: match_path.exists() and timeline_path.exists()
FilesExist(mfile, tfile) == mfile # <<>> /\ tfile # <<>>

\* the content of a file that is not JSON (cut short, empty, not a record)
Unparsable == [unparsable |-> TRUE]

\* load_json, lines 46-48: json.loads raises JSONDecodeError on such a file
load_json_raises(content) == "unparsable" \in DOMAIN content

\* build_features_for_match: the outcome ("none" for return None, "raise" for
\* an exception that leaves the function, "row") and the locals it has set
build_features_for_match(match_id, mfile, tfile, puuid) ==
    IF ~FilesExist(mfile, tfile) THEN NoLocals
    ELSE IF load_json_raises(mfile[1])
    THEN [NoLocals EXCEPT !.outcome = "raise", !.exc = "JSONDecodeError"]
    ELSE IF load_json_raises(tfile[1])
    THEN [NoLocals EXCEPT !.outcome = "raise", !.exc = "JSONDecodeError",
                          !.match_json = mfile]
    ELSE
    LET mj == mfile[1]
        tj == tfile[1]
        map == get_team_map_from_match(mj)
        mt == get_my_team_id(mj, puuid)
        l1 == [NoLocals EXCEPT !.match_json = mfile, !.timeline_json = tfile,
                               !.pid_to_team = map]
    IN  IF mt.raised
        THEN [l1 EXCEPT !.outcome = "raise",
                        !.exc = "ValueError: Could not find my puuid in match participants."]
        ELSE
        LET w == WinLoop(Participants(mj), puuid)
            l2 == [l1 EXCEPT !.my_team = mt.value, !.win = w]
        IN  IF w = <<>> THEN l2
            ELSE
            LET fr == frame_at_minute(tj, TARGET_MINUTE)
            IN  IF fr.raised
                THEN [l2 EXCEPT !.outcome = "raise",
                                !.exc = "ValueError: Timeline has no frames."]
                ELSE
                LET totals == team_totals_from_frame(fr.value[1], map)
                    l3 == [l2 EXCEPT !.frame10 = fr.value, !.totals10 = <<totals>>]
                IN  IF mt.value[1] \notin DOMAIN totals
                    THEN [l3 EXCEPT !.outcome = "raise", !.exc = "KeyError"]
                    ELSE
                    LET kills == kills_diff_up_to_10min(tj, map, mt.value[1])
                    IN  [l3 EXCEPT !.outcome = "row",
                                   !.kills_diff_10 = <<kills>>,
                                   !.row = <<FeatureRow(match_id, w[1], totals,
                                                        mt.value[1], kills)>>]


(***************************************************************************)
(* S08 inputs: the records the downloaders can have left in data/raw and   *)
(* data/timeline_raw                                                       *)
(***************************************************************************)
MaxMatches == 2         \* rows of my_games.csv
MaxParticipants == 2    \* participants of a match record, where they vary
MaxEvents == 2          \* events of a timeline, where they vary

Me == "me"
Puuids == {Me, "other"}
TeamIds == {100, 200, 300}      \* 300: a teamId that is neither side

EmptyDict == <<>>
MatchOf(ps) == [info |-> [participants |-> ps]]

\* participant records; participantId is the position in the match (1..n)
ParticipantSeqs(n) ==
    { [i \in 1..n |-> [participantId |-> i, puuid |-> f[i].puuid,
                       teamId |-> f[i].teamId, win |-> f[i].win]] :
        f \in [1..n -> [puuid : Puuids, teamId : TeamIds, win : BOOLEAN]] }

\* a three-player match: the target is participant 1 on `side`
MatchWithTeams(side, t2, t3, w) ==
    MatchOf(<< [participantId |-> 1, puuid |-> Me, teamId |-> side, win |-> w],
               [participantId |-> 2, puuid |-> "other", teamId |-> t2, win |-> ~w],
               [participantId |-> 3, puuid |-> "other", teamId |-> t3, win |-> ~w] >>)

\* a match without the target player
MatchWithoutMe ==
    MatchOf(<< [participantId |-> 1, puuid |-> "other", teamId |-> 100, win |-> TRUE],
               [participantId |-> 2, puuid |-> "other", teamId |-> 200, win |-> FALSE] >>)

\* participantFrames keys: the decimal strings "1", "2", "3", "10"
PFKeys == { <<1>>, <<2>>, <<3>>, <<1, 0>> }

\* a participant frame at frame 0: complete, without jungle minions, nearly empty
PFChoices ==
    { [totalGold |-> 50, xp |-> 30, minionsKilled |-> 7, jungleMinionsKilled |-> 2],
      [totalGold |-> 40, xp |-> 20, minionsKilled |-> 5],
      [xp |-> 10] }

\* cumulative totals grow with the frame index
Grow(pf, k) == [f \in DOMAIN pf |-> pf[f] + k]

\* a timeline of n frames; the events of the first two frames are given
TimelineOf(n, base, ev1, ev2) ==
    [info |-> [frames |->
        [k \in 1..n |->
            [participantFrames |-> [key \in DOMAIN base |-> Grow(base[key], k - 1)],
             events |-> IF k = 1 THEN ev1 ELSE IF k = 2 THEN ev2 ELSE <<>>]]]]

DefaultBase ==
    [key \in PFKeys |->
        IF key = <<1>>
        THEN [totalGold |-> 50, xp |-> 30, minionsKilled |-> 7, jungleMinionsKilled |-> 2]
        ELSE IF key = <<2>> THEN [totalGold |-> 40, xp |-> 20, minionsKilled |-> 5]
        ELSE [xp |-> 10]]

KillBy(ts, killer) == [type |-> "CHAMPION_KILL", timestamp |-> ts, killerId |-> killer]

DefaultEvents == << KillBy(TARGET_MS, 1), KillBy(TARGET_MS + 1, 2) >>

\* timeline lengths: none, one, and every length around the target minute
FrameCounts == {0, 1} \cup ((TARGET_MINUTE - 2)..(TARGET_MINUTE + 2))


\* events: kills at, after and without a timestamp, by no one, by 0, by a
\* participant of either side and by an unknown participant; a kill before the
\* cutoff, a kill by a participant of neither side, and a building kill
Events ==
    { KillBy(TARGET_MS, k) : k \in {0, 1, 2, 10} }
    \cup { KillBy(TARGET_MS + 1, k) : k \in {1, 2} }
    \cup { [type |-> "CHAMPION_KILL", timestamp |-> TARGET_MS],
           [type |-> "CHAMPION_KILL", killerId |-> 1],
           KillBy(TARGET_MS - 1, 2), KillBy(TARGET_MS, 3),
           [type |-> "BUILDING_KILL", timestamp |-> TARGET_MS, killerId |-> 1] }

EventSeqs(n) == UNION { [1..k -> Events] : k \in 0..n }

\* the small catalogue used when several matches are processed
FullTimeline == TimelineOf(TARGET_MINUTE + 2, DefaultBase, DefaultEvents, <<>>)
ShortTimeline == TimelineOf(TARGET_MINUTE - 2, DefaultBase, DefaultEvents, <<>>)
NoFramesTimeline == TimelineOf(0, DefaultBase, <<>>, <<>>)
CatalogMatches == { MatchWithTeams(100, 200, 300, TRUE),
                    MatchWithTeams(200, 100, 100, FALSE),
                    MatchWithoutMe }
CatalogTimelines == { FullTimeline, ShortTimeline, NoFramesTimeline }

GamesOf(n) == [i \in 1..n |-> [match_id |-> i, puuid |-> Me]]
File(S) == { <<x>> : x \in S }
OnlyFirst(f) == [i \in 1..MaxMatches |-> IF i = 1 THEN f ELSE <<>>]

\* one match, every match record: no "info", or any participants
InputsVariedMatch ==
    /\ my_games = <<GamesOf(1)>>
    /\ \/ match_dir = OnlyFirst(<<EmptyDict>>)
       \/ \E n \in 0..MaxParticipants : \E ps \in ParticipantSeqs(n) :
             match_dir = OnlyFirst(<<MatchOf(ps)>>)
    /\ timeline_dir = OnlyFirst(<<FullTimeline>>)

\* one match, every frame sequence and every team mapping
InputsVariedFrames ==
    /\ my_games = <<GamesOf(1)>>
    /\ \E side \in {100, 200}, t2 \in TeamIds, t3 \in TeamIds :
          match_dir = OnlyFirst(<<MatchWithTeams(side, t2, t3, TRUE)>>)
    /\ \E n \in FrameCounts, base \in [PFKeys -> PFChoices] :
          timeline_dir = OnlyFirst(<<TimelineOf(n, base, DefaultEvents, <<>>)>>)

\* one match, every event stream, spread over the first two frames
InputsVariedEvents ==
    /\ my_games = <<GamesOf(1)>>
    /\ \E side \in {100, 200} :
          match_dir = OnlyFirst(<<MatchWithTeams(side, 300 - side, 300, TRUE)>>)
    /\ \E evs \in EventSeqs(MaxEvents) : \E cut \in 0..Len(evs) :
          timeline_dir = OnlyFirst(<<TimelineOf(2, DefaultBase, SubSeq(evs, 1, cut),
                                                 SubSeq(evs, cut + 1, Len(evs)))>>)

\* several listed matches, each with or without its files; or no my_games.csv
InputsBatch ==
    \/ /\ my_games = <<>>
       /\ match_dir = [i \in 1..MaxMatches |-> <<>>]
       /\ timeline_dir = [i \in 1..MaxMatches |-> <<>>]
    \/ \E n \in 0..MaxMatches :
          /\ my_games = <<GamesOf(n)>>
          /\ match_dir \in [1..MaxMatches -> {<<>>} \cup File(CatalogMatches)]
          /\ timeline_dir \in [1..MaxMatches -> {<<>>} \cup File(CatalogTimelines)]
          /\ \A i \in (n + 1)..MaxMatches :
                match_dir[i] = <<>> /\ timeline_dir[i] = <<>>

\* one match whose match file, or whose timeline file, is not JSON
InputsUnparsable ==
    /\ my_games = <<GamesOf(1)>>
    /\ \/ /\ match_dir = OnlyFirst(<<Unparsable>>)
          /\ timeline_dir = OnlyFirst(<<FullTimeline>>)
       \/ /\ match_dir = OnlyFirst(<<MatchWithTeams(100, 200, 200, TRUE)>>)
          /\ timeline_dir = OnlyFirst(<<Unparsable>>)

LocalsUnset ==
    /\ match_json = <<>>
    /\ timeline_json = <<>>
    /\ pid_to_team = <<>>
    /\ my_team = <<>>
    /\ win = <<>>
    /\ frame10 = <<>>
    /\ totals10 = <<>>
    /\ kills_diff_10 = <<>>
    /\ exc = ""

S08Init ==
    /\ \/ InputsVariedMatch
       \/ InputsVariedFrames
       \/ InputsVariedEvents
       \/ InputsBatch
       \/ InputsUnparsable
    /\ idx8 = 0
    /\ rows = <<>>
    /\ out_features = <<>>
    /\ prev_features = <<>>
    /\ pc8 = "start"
    /\ LocalsUnset

S08Idle ==
    /\ my_games = <<>>
    /\ match_dir = <<>>
    /\ timeline_dir = <<>>
    /\ idx8 = 0
    /\ rows = <<>>
    /\ out_features = <<>>
    /\ prev_features = <<>>
    /\ pc8 = "idle"
    /\ LocalsUnset


(***************************************************************************)
(* S08 main                                                                *)
(***************************************************************************)
\* lines 191-192: my_games.csv is required
S08MissingGames ==
    /\ pc8 = "start"
    /\ my_games = <<>>
    /\ pc8' = "raised"
    /\ exc' = "FileNotFoundError: my_games.csv not found. Run S04 first."
    /\ UNCHANGED <<my_games, match_dir, timeline_dir, idx8, rows, out_features,
                   prev_features>>
    /\ UNCHANGED <<match_json, timeline_json, pid_to_team, my_team, win,
                   frame10, totals10, kills_diff_10>>
    /\ UNCHANGED <<bvars, s9vars, s6vars, cvvars, lvars, dlvars>>

\* line 195: my_games["puuid"].iloc[0] on a table without rows
S08NoGames ==
    /\ pc8 = "start"
    /\ my_games = << <<>> >>
    /\ pc8' = "raised"
    /\ exc' = "IndexError"
    /\ UNCHANGED <<my_games, match_dir, timeline_dir, idx8, rows, out_features,
                   prev_features>>
    /\ UNCHANGED <<match_json, timeline_json, pid_to_team, my_team, win,
                   frame10, totals10, kills_diff_10>>
    /\ UNCHANGED <<bvars, s9vars, s6vars, cvvars, lvars, dlvars>>

\* lines 194-198: read my_games, start the loop with no rows
S08Read ==
    /\ pc8 = "start"
    /\ my_games # <<>>
    /\ my_games[1] # <<>>
    /\ idx8' = 1
    /\ rows' = <<>>
    /\ pc8' = "loop"
    /\ UNCHANGED <<my_games, match_dir, timeline_dir, out_features, prev_features>>
    /\ UNCHANGED fvars
    /\ UNCHANGED <<bvars, s9vars, s6vars, cvvars, lvars, dlvars>>

\* lines 200-203: one iteration; an exception of the call leaves main
S08LoopBody ==
    /\ pc8 = "loop"
    /\ idx8 <= Len(my_games[1])
    /\ \E b \in { build_features_for_match(my_games[1][idx8].match_id,
                                           match_dir[my_games[1][idx8].match_id],
                                           timeline_dir[my_games[1][idx8].match_id],
                                           my_games[1][1].puuid) } :
           /\ match_json' = b.match_json
           /\ timeline_json' = b.timeline_json
           /\ pid_to_team' = b.pid_to_team
           /\ my_team' = b.my_team
           /\ win' = b.win
           /\ frame10' = b.frame10
           /\ totals10' = b.totals10
           /\ kills_diff_10' = b.kills_diff_10
           /\ exc' = b.exc
           /\ rows' = IF b.outcome = "row" THEN Append(rows, b.row[1]) ELSE rows
           /\ pc8' = IF b.outcome = "raise" THEN "raised" ELSE "loop"
    /\ idx8' = idx8 + 1
    /\ UNCHANGED <<my_games, match_dir, timeline_dir, out_features, prev_features>>
    /\ UNCHANGED <<bvars, s9vars, s6vars, cvvars, lvars, dlvars>>

\* lines 205-206: the feature table is written after the loop
S08WriteFeatures ==
    /\ pc8 = "loop"
    /\ idx8 > Len(my_games[1])
    /\ out_features' = <<rows>>
    /\ pc8' = "features_written"
    /\ UNCHANGED <<my_games, match_dir, timeline_dir, idx8, rows, prev_features>>
    /\ UNCHANGED fvars
    /\ UNCHANGED <<bvars, s9vars, s6vars, cvvars, lvars, dlvars>>

\* the script is run again over the same files
S08RunAgain ==
    /\ pc8 = "features_written"
    /\ prev_features' = <<out_features>>
    /\ idx8' = 0
    /\ rows' = <<>>
    /\ pc8' = "start"
    /\ match_json' = <<>>
    /\ timeline_json' = <<>>
    /\ pid_to_team' = <<>>
    /\ my_team' = <<>>
    /\ win' = <<>>
    /\ frame10' = <<>>
    /\ totals10' = <<>>
    /\ kills_diff_10' = <<>>
    /\ exc' = ""
    /\ UNCHANGED <<my_games, match_dir, timeline_dir, out_features>>
    /\ UNCHANGED <<bvars, s9vars, s6vars, cvvars, lvars, dlvars>>

(***************************************************************************)
(* Floating-point arithmetic of the impact pipeline (S04-S06)              *)
(*                                                                         *)
(* The metric columns and everything computed from them are binary         *)
(* floating-point numbers.  A number is the record [m, e] standing for     *)
(* m * 2^e with a significand of FloatBits bits (2^(FloatBits-1) <= |m| <  *)
(* 2^FloatBits, zero is [m |-> 0, e |-> 0]); every operation returns the   *)
(* exact result rounded to nearest, ties to even, as IEEE 754 does.  The   *)
(* program's numbers have 53 bits; the exponent range is not bounded here. *)
(***************************************************************************)
FloatBits == 8

Pow2(k) == 2 ^ k

RECURSIVE BitLen(_)
BitLen(a) == IF a = 0 THEN 0 ELSE 1 + BitLen(a \div 2)

RECURSIVE Isqrt(_)
\* floor of the square root
Isqrt(n) ==
    IF n < 2 THEN n
    ELSE LET s == 2 * Isqrt(n \div 4)
         IN  IF (s + 1) * (s + 1) <= n THEN s + 1 ELSE s

AbsInt(a) == IF a < 0 THEN -a ELSE a
SgnInt(a) == IF a < 0 THEN -1 ELSE IF a = 0 THEN 0 ELSE 1

FZero == [m |-> 0, e |-> 0]

\* the float nearest to the integer M times 2^E (ties to even)
RoundInt(M, E) ==
    IF M = 0 THEN FZero
    ELSE LET a == AbsInt(M)
             k == BitLen(a) - FloatBits
         IN  IF k <= 0
             THEN [m |-> SgnInt(M) * a * Pow2(-k), e |-> E + k]
             ELSE LET q == a \div Pow2(k)
                      r == a % Pow2(k)
                      up == 2 * r > Pow2(k) \/ (2 * r = Pow2(k) /\ q % 2 = 1)
                      q1 == IF up THEN q + 1 ELSE q
                  IN  IF q1 = Pow2(FloatBits)
                      THEN [m |-> SgnInt(M) * Pow2(FloatBits - 1), e |-> E + k + 1]
                      ELSE [m |-> SgnInt(M) * q1, e |-> E + k]

\* the float nearest to the fraction n / d of two integers, d > 0: what a
\* decimal literal or a value read from a CSV file becomes
FRat(n, d) ==
    LET g == FloatBits + 2 + BitLen(d)
        q == (AbsInt(n) * Pow2(g)) \div d
        sticky == IF (AbsInt(n) * Pow2(g)) % d = 0 THEN 0 ELSE 1
    IN  RoundInt(SgnInt(n) * (2 * q + sticky), -g - 1)

FNeg(x) == [m |-> -x.m, e |-> x.e]

\* x + y
FAdd(x, y) ==
    IF x.m = 0 THEN y
    ELSE IF y.m = 0 THEN x
    ELSE LET big == IF x.e >= y.e THEN x ELSE y
             small == IF x.e >= y.e THEN y ELSE x
             gap == big.e - small.e
         IN  IF gap > FloatBits + 2
             \* the small operand is below half a unit in the last place
             THEN RoundInt(big.m * Pow2(FloatBits + 2) + SgnInt(small.m),
                           big.e - FloatBits - 2)
             ELSE RoundInt(big.m * Pow2(gap) + small.m, small.e)

\* x - y
FSub(x, y) == FAdd(x, FNeg(y))

\* x * y
FMul(x, y) == RoundInt(x.m * y.m, x.e + y.e)

\* x / y for y # 0
FDiv(x, y) ==
    LET g == FloatBits + 2
        q == (AbsInt(x.m) * Pow2(g)) \div AbsInt(y.m)
        sticky == IF (AbsInt(x.m) * Pow2(g)) % AbsInt(y.m) = 0 THEN 0 ELSE 1
    IN  RoundInt(SgnInt(x.m) * SgnInt(y.m) * (2 * q + sticky), x.e - y.e - g - 1)

\* sqrt(x) for x >= 0
FSqrt(x) ==
    IF x.m = 0 THEN FZero
    ELSE LET g == (FloatBits + 4) \div 2
             odd == x.e % 2 = 1
             m2 == IF odd THEN 2 * x.m ELSE x.m
             e2 == IF odd THEN x.e - 1 ELSE x.e
             n == m2 * Pow2(2 * g)
             r == Isqrt(n)
             sticky == IF r * r = n THEN 0 ELSE 1
         IN  RoundInt(2 * r + sticky, (e2 \div 2) - g - 1)

\* the sign of x - y, exactly
FCmp(x, y) ==
    IF SgnInt(x.m) # SgnInt(y.m) THEN SgnInt(SgnInt(x.m) - SgnInt(y.m))
    ELSE IF x.m = 0 THEN 0
    ELSE IF x.e # y.e THEN (IF x.e > y.e THEN SgnInt(x.m) ELSE -SgnInt(x.m))
    ELSE SgnInt(x.m - y.m)

FLt(x, y) == FCmp(x, y) < 0
FLe(x, y) == FCmp(x, y) <= 0

(***************************************************************************)
(* S06 role-aware impact score and S05 within-team ranks                   *)
(***************************************************************************)
\* df["role"].fillna("UNKNOWN"): a missing role is <<>>
RoleOf(row) == IF row.role = <<>> THEN "UNKNOWN" ELSE row.role[1]

\* the column col of the rows idx (an ascending sequence of row numbers)
RECURSIVE ColumnOf(_, _, _)
ColumnOf(df, idx, col) ==
    IF idx = <<>> THEN <<>>
    ELSE <<df[Head(idx)][col]>> \o ColumnOf(df, Tail(idx), col)

\* the rows of df with property Keep, in the order of the frame
RECURSIVE IndexWhere(_, _, _)
IndexWhere(n, S, i) ==
    IF i > n THEN <<>>
    ELSE (IF i \in S THEN <<i>> ELSE <<>>) \o IndexWhere(n, S, i + 1)

\* values.sum(): numpy adds a column of fewer than 8 numbers left to right
RECURSIVE FSum(_, _)
FSum(vals, acc) ==
    IF vals = <<>> THEN acc ELSE FSum(Tail(vals), FAdd(acc, Head(vals)))

\* Series.mean()
FMean(vals) == FDiv(FSum(vals, FZero), RoundInt(Len(vals), 0))

FSquare(x) == FMul(x, x)

\* (avg - values) ** 2
SquaredDeviations(vals, avg) ==
    [i \in 1..Len(vals) |-> FSquare(FSub(avg, vals[i]))]

\* sqrt(sum(sqr) / d), with avg the mean of the values
StdAbout(vals, avg, d) ==
    FSqrt(FDiv(FSum(SquaredDeviations(vals, avg), FZero), RoundInt(d, 0)))

\* Series.std(ddof=0): sqrt(sum((avg - values) ** 2) / n)
FStd(vals) == StdAbout(vals, FMean(vals), Len(vals))

\* the two branches of z(g), given the std and the mean of the group
ZWith(vals, std, mean) ==
    IF std.m = 0
    THEN [i \in 1..Len(vals) |-> FMul(FSub(vals[i], mean), FZero)]
    ELSE [i \in 1..Len(vals) |-> FDiv(FSub(vals[i], mean), std)]

\* z(g) of zscore_within_role, on the values of one role group
ZOfGroup(vals) == ZWith(vals, FStd(vals), FMean(vals))

\* the position of row i in the ascending sequence idx
PositionIn(idx, i) == CHOOSE k \in 1..Len(idx) : idx[k] = i

RoleGroup(df, i) ==
    IndexWhere(Len(df), {j \in 1..Len(df) : RoleOf(df[j]) = RoleOf(df[i])}, 1)

\* the result of groupby(...).apply(z) put back in the order of the rows of
\* df: zs maps each role to the z column of its group
AlignWithRows(df, zs) ==
    [i \in 1..Len(df) |-> zs[RoleOf(df[i])][PositionIn(RoleGroup(df, i), i)]]

\* a slip: every row is standardized against the whole frame
zscore_over_all(df, col) == ZOfGroup(ColumnOf(df, [j \in 1..Len(df) |-> j], col))

\* zscore_within_role: df.groupby(role_col, group_keys=False).apply(z)
zscore_within_role(df, col) ==
    AlignWithRows(df,
        [r \in {RoleOf(df[j]) : j \in 1..Len(df)} |->
            ZOfGroup(ColumnOf(df,
                IndexWhere(Len(df), {j \in 1..Len(df) : RoleOf(df[j]) = r}, 1),
                col))])

\* the weights of build_impact_score as the floats their literals denote
W_DAMAGE == FRat(35, 100)
W_KP == FRat(30, 100)
W_CS == FRat(25, 100)
W_VISION == FRat(10, 100)

\* a slip: the weights of damage share and vision swapped
ImpactOfSwapped(zd, zk, zc, zv) ==
    FAdd(FAdd(FAdd(FMul(W_VISION, zd), FMul(W_KP, zk)), FMul(W_CS, zc)),
         FMul(W_DAMAGE, zv))

\* 0.35 * zd + 0.30 * zk + 0.25 * zc + 0.10 * zv, evaluated left to right
ImpactOf(zd, zk, zc, zv) ==
    FAdd(FAdd(FAdd(FMul(W_DAMAGE, zd), FMul(W_KP, zk)), FMul(W_CS, zc)),
         FMul(W_VISION, zv))

\* adds the columns named in cols (a function from column name to column)
WithColumns(df, cols) ==
    [i \in 1..Len(df) |->
        [f \in DOMAIN df[i] \cup DOMAIN cols |->
            IF f \in DOMAIN cols THEN cols[f][i] ELSE df[i][f]]]

\* lines 65-76 of build_impact_score: the four z columns and their weighted sum
WithImpact(df, zd, zk, zc, zv) ==
    [i \in 1..Len(df) |->
        [f \in DOMAIN df[i] \cup {"z_damage_share", "z_kill_participation",
                                   "z_cs_per_min", "z_vision_per_min",
                                   "impact_score"} |->
            CASE f = "z_damage_share" -> zd[i]
              [] f = "z_kill_participation" -> zk[i]
              [] f = "z_cs_per_min" -> zc[i]
              [] f = "z_vision_per_min" -> zv[i]
              [] f = "impact_score" -> ImpactOf(zd[i], zk[i], zc[i], zv[i])
              [] OTHER -> df[i][f]]]

\* df["role"].fillna("UNKNOWN")
FillRole(df) == [i \in 1..Len(df) |-> [df[i] EXCEPT !.role = <<RoleOf(df[i])>>]]

\* build_impact_score
build_impact_score(df) ==
    WithImpact(FillRole(df),
               zscore_within_role(FillRole(df), "damage_share"),
               zscore_within_role(FillRole(df), "kill_participation"),
               zscore_within_role(FillRole(df), "cs_per_min"),
               zscore_within_role(FillRole(df), "vision_per_min"))

\* the values sorted from the greatest to the least
RECURSIVE SortDescending(_)
SortDescending(vals) ==
    IF vals = <<>> THEN <<>>
    ELSE LET k == CHOOSE a \in 1..Len(vals) :
                     \A b \in 1..Len(vals) : FLe(vals[b], vals[a])
             rest == [j \in 1..(Len(vals) - 1) |->
                         IF j < k THEN vals[j] ELSE vals[j + 1]]
         IN  <<vals[k]>> \o SortDescending(rest)

\* a slip: method="first", ties ranked by their order in the frame
RankFirst(vals, i) ==
    1 + Cardinality({j \in 1..Len(vals) :
                        FLt(vals[i], vals[j]) \/ (vals[j] = vals[i] /\ j < i)})

\* rank(ascending=False, method="min") of value i among vals: the first
\* place its value takes in the descending order
RankMin(vals, i) ==
    LET sorted == SortDescending(vals)
    IN  CHOOSE k \in 1..Len(sorted) :
            /\ sorted[k] = vals[i]
            /\ \A j \in 1..(k - 1) : sorted[j] # vals[i]

TeamGroup(df, i) ==
    IndexWhere(Len(df), {j \in 1..Len(df) :
                            /\ df[j].match_id = df[i].match_id
                            /\ df[j].team_id = df[i].team_id}, 1)

\* groupby(["match_id", "team_id"])[col].rank(ascending=False, method="min")
RankOnTeam(df, col) ==
    [i \in 1..Len(df) |->
        LET idx == TeamGroup(df, i)
        IN  RankMin(ColumnOf(df, idx, col), PositionIn(idx, i))]

\* rank_on_team of S06
rank_on_team(df) ==
    WithColumns(df, [f \in {"impact_rank_on_team"} |-> RankOnTeam(df, "impact_score")])

\* df[df["puuid"] == my_puuid]
RowsOfPuuid(df, puuid) ==
    LET idx == IndexWhere(Len(df), {j \in 1..Len(df) : df[j].puuid = puuid}, 1)
    IN  [k \in 1..Len(idx) |-> df[idx[k]]]

\* add_within_team_ranks of S05
add_within_team_ranks(df, puuid) ==
    RowsOfPuuid(
        WithColumns(df,
            [f \in {"damage_share_rank_on_team", "kp_rank_on_team",
                    "gold_share_rank_on_team"} |->
                CASE f = "damage_share_rank_on_team" -> RankOnTeam(df, "damage_share")
                  [] f = "kp_rank_on_team" -> RankOnTeam(df, "kill_participation")
                  [] OTHER -> RankOnTeam(df, "gold_share")]),
        puuid)

(***************************************************************************)
(* S05 / S06 main                                                          *)
(***************************************************************************)
MaxPlayers == 3

\* metric values of the player table, as read from the CSV file
V09 == FRat(9, 10)
V7 == FRat(7, 1)
V10 == FRat(10, 1)

MetricsOf(d, k, c, v, g) ==
    [damage_share |-> d, kill_participation |-> k, cs_per_min |-> c,
     vision_per_min |-> v, gold_share |-> g]

AllEqual(v) == MetricsOf(v, v, v, v, v)

MetricChoices == {AllEqual(V09), AllEqual(V10), MetricsOf(V7, V09, V10, V10, V7)}

PlayerRow(i, match, team, role, mt) ==
    [match_id |-> match, team_id |-> team,
     puuid |-> IF i % 2 = 1 THEN Me ELSE "other",
     role |-> role, win |-> (team = 100),
     damage_share |-> mt.damage_share,
     kill_participation |-> mt.kill_participation,
     cs_per_min |-> mt.cs_per_min,
     vision_per_min |-> mt.vision_per_min,
     gold_share |-> mt.gold_share]

\* one team of one match: a support player followed by n players of every
\* role (the first one possibly without a role) and every metric; the
\* players after the second are TOP with equal metric columns
PlayersVariedRoles(n) ==
    {<<PlayerRow(0, 1, 100, <<"SUPPORT">>, AllEqual(V10))>>
     \o [i \in 1..n |-> PlayerRow(i, 1, 100, c[i][1], c[i][2])] :
        c \in {d \in [1..n -> {<<"TOP">>, <<"MIDDLE">>, <<>>} \X MetricChoices] :
                  \A i \in 1..n : ((d[i][1] = <<>>) => (i = 1))
                                   /\ ((i > 2) => (d[i][1] = <<"TOP">>
                                                   /\ d[i][2] \in {AllEqual(V09), AllEqual(V10)}))}}

\* n players of two roles: every match, team and metric (the players after
\* the second are of the first match)
PlayersVariedTeams(n) ==
    {[i \in 1..n |->
         PlayerRow(i, c[i][1][1], c[i][1][2],
                   IF i % 2 = 1 THEN <<"TOP">> ELSE <<"BOTTOM">>, c[i][2])] :
        c \in {d \in [1..n -> {<<1, 100>>, <<1, 200>>, <<2, 100>>}
                             \X {AllEqual(V10), MetricsOf(V7, V09, V10, V10, V7)}] :
                  \A i \in 1..n : (i > 2) => (d[i][1][1] = 1)}}

S06Init ==
    /\ \/ /\ in_all = <<>>
          /\ in_me \in {<<>>, << <<[puuid |-> Me]>> >>}
       \/ /\ in_all = << <<>> >>
          /\ in_me \in {<<>>, << <<>> >>}
       \/ /\ \E n \in 0..MaxPlayers :
                \E t \in PlayersVariedRoles(n) \cup PlayersVariedTeams(n) :
                    in_all = <<t>>
          /\ in_me = << <<[puuid |-> Me]>> >>
    /\ all_df = <<>>
    /\ my_puuid = <<>>
    /\ out_me = <<>>
    /\ pc6 = "start"
    /\ exc6 = ""
    /\ my_ranked = <<>>
    /\ pc5 = "start"

S06Idle ==
    /\ in_all = <<>>
    /\ in_me = <<>>
    /\ all_df = <<>>
    /\ my_puuid = <<>>
    /\ out_me = <<>>
    /\ pc6 = "idle"
    /\ exc6 = ""
    /\ my_ranked = <<>>
    /\ pc5 = "idle"

\* S06 main, lines 96-97
S06MissingInput ==
    /\ pc6 = "start"
    /\ in_all = <<>> \/ in_me = <<>>
    /\ pc6' = "raised"
    /\ exc6' = "FileNotFoundError"
    /\ UNCHANGED <<in_all, in_me, all_df, my_puuid, out_me, my_ranked, pc5>>
    /\ UNCHANGED <<bvars, s9vars, s8vars, fvars, cvvars, lvars, dlvars>>

\* S06 main, lines 99-103: my_df["puuid"].iloc[0] of an empty table
S06NoGames ==
    /\ pc6 = "start"
    /\ in_all # <<>> /\ in_me = << <<>> >>
    /\ all_df' = in_all[1]
    /\ pc6' = "raised"
    /\ exc6' = "IndexError"
    /\ UNCHANGED <<in_all, in_me, my_puuid, out_me, my_ranked, pc5>>
    /\ UNCHANGED <<bvars, s9vars, s8vars, fvars, cvvars, lvars, dlvars>>

\* S06 main, lines 99-103
S06Read ==
    /\ pc6 = "start"
    /\ in_all # <<>> /\ in_me # <<>> /\ in_me # << <<>> >>
    /\ all_df' = in_all[1]
    /\ my_puuid' = <<in_me[1][1].puuid>>
    /\ pc6' = "read"
    /\ UNCHANGED <<in_all, in_me, out_me, exc6, my_ranked, pc5>>
    /\ UNCHANGED <<bvars, s9vars, s8vars, fvars, cvvars, lvars, dlvars>>

\* S06 main, line 106
S06BuildImpact ==
    /\ pc6 = "read"
    /\ all_df' = build_impact_score(all_df)
    /\ pc6' = "scored"
    /\ UNCHANGED <<in_all, in_me, my_puuid, out_me, exc6, my_ranked, pc5>>
    /\ UNCHANGED <<bvars, s9vars, s8vars, fvars, cvvars, lvars, dlvars>>

\* S06 main, line 106, on a table with at most one role: groupby.apply hands
\* the result of a single group back as a frame, not as a column, and the
\* assignment of line 65 fails with it (depends on the pandas version)
S06BuildImpactOneRoleRaises ==
    /\ pc6 = "read"
    /\ Cardinality({RoleOf(all_df[i]) : i \in 1..Len(all_df)}) <= 1
    /\ pc6' = "raised"
    /\ exc6' = "ValueError"
    /\ UNCHANGED <<in_all, in_me, all_df, my_puuid, out_me, my_ranked, pc5>>
    /\ UNCHANGED <<bvars, s9vars, s8vars, fvars, cvvars, lvars, dlvars>>

\* S06 main, line 109
S06Rank ==
    /\ pc6 = "scored"
    /\ all_df' = rank_on_team(all_df)
    /\ pc6' = "ranked"
    /\ UNCHANGED <<in_all, in_me, my_puuid, out_me, exc6, my_ranked, pc5>>
    /\ UNCHANGED <<bvars, s9vars, s8vars, fvars, cvvars, lvars, dlvars>>

\* S06 main, lines 112-115
S06Save ==
    /\ pc6 = "ranked"
    /\ out_me' = <<RowsOfPuuid(all_df, my_puuid[1])>>
    /\ pc6' = "saved"
    /\ UNCHANGED <<in_all, in_me, all_df, my_puuid, exc6, my_ranked, pc5>>
    /\ UNCHANGED <<bvars, s9vars, s8vars, fvars, cvvars, lvars, dlvars>>

\* S05 main, lines 134-135
S05MissingInput ==
    /\ pc5 = "start"
    /\ in_all = <<>> \/ in_me = <<>>
    /\ pc5' = "raised"
    /\ UNCHANGED <<in_all, in_me, all_df, my_puuid, out_me, pc6, exc6, my_ranked>>
    /\ UNCHANGED <<bvars, s9vars, s8vars, fvars, cvvars, lvars, dlvars>>

\* S05 main, lines 137-141: my_df["puuid"].iloc[0] of an empty table
S05NoGames ==
    /\ pc5 = "start"
    /\ in_all # <<>> /\ in_me = << <<>> >>
    /\ pc5' = "raised"
    /\ UNCHANGED <<in_all, in_me, all_df, my_puuid, out_me, pc6, exc6, my_ranked>>
    /\ UNCHANGED <<bvars, s9vars, s8vars, fvars, cvvars, lvars, dlvars>>

\* S05 main, lines 137-147
S05Rank ==
    /\ pc5 = "start"
    /\ in_all # <<>> /\ in_me # <<>> /\ in_me # << <<>> >>
    /\ my_ranked' = <<add_within_team_ranks(in_all[1], in_me[1][1].puuid)>>
    /\ pc5' = "ranked"
    /\ UNCHANGED <<in_all, in_me, all_df, my_puuid, out_me, pc6, exc6>>
    /\ UNCHANGED <<bvars, s9vars, s8vars, fvars, cvvars, lvars, dlvars>>


(***************************************************************************)
(* S08 main, lines 197-229: the expectation model                          *)
(*                                                                         *)
(* StratifiedKFold, cross_val_predict and LogisticRegression are library   *)
(* code.  The fold assignment and the assembly of the predictions are      *)
(* modelled step by step as the library computes them.  The permutation    *)
(* that a random generator seeded with 42 draws is not computed here: it   *)
(* is one fixed, unknown outcome (mt_seeded), the same in every run.  The  *)
(* numerical optimiser behind fit is replaced by a surrogate estimator     *)
(* with the same interface: fit sees the training rows only and fails on   *)
(* a single class, predict_proba maps a feature row to a probability       *)
(* (in hundredths).                                                        *)
(***************************************************************************)
RECURSIVE ExtractRowsReversed(_, _)
RECURSIVE ExtractRows(_, _)
RECURSIVE FoldsForClass(_, _, _, _)
RECURSIVE ScoreSum(_)
RECURSIVE ColumnSum(_, _)
N_SPLITS == 5
RANDOM_STATE == 42
SMALL_SAMPLE == 30

FEATURES == <<"gold_diff_10", "xp_diff_10", "cs_diff_10", "kills_diff_10">>

\* a slip: the generator is not seeded
cv_unseeded == [n_splits |-> N_SPLITS, shuffle |-> TRUE, random_state |-> <<>>]

\* line 219: StratifiedKFold(n_splits=5, shuffle=True, random_state=42)
cv == [n_splits |-> N_SPLITS, shuffle |-> TRUE, random_state |-> <<RANDOM_STATE>>]

\* a slip: every row is put in front of the rows collected so far
ExtractRowsReversed(ids, files) ==
    IF ids = <<>> THEN <<>>
    ELSE ExtractRowsReversed(Tail(ids), files) \o files[Head(ids)]

\* lines 198-203: the rows of the listed matches, in the order of the list,
\* without the matches for which build_features_for_match returns None
ExtractRows(ids, files) ==
    IF ids = <<>> THEN <<>>
    ELSE files[Head(ids)] \o ExtractRows(Tail(ids), files)

\* line 213: y = df["win"].astype(int)
YOf(df) == [i \in 1..Len(df) |-> IF df[i].win THEN 1 ELSE 0]

\* the classes of y numbered by first appearance (0 for the class of y[1])
Encoded(y) == [i \in 1..Len(y) |-> IF y[i] = y[1] THEN 0 ELSE 1]

ClassCount(enc, k) == Cardinality({i \in 1..Len(enc) : enc[i] = k})

\* np.bincount(y_order[i::n_splits]): the sorted labels are dealt to the folds
\* in turn, class 0 first; how many of class k fold i gets
Allocation(enc, splits, i, k) ==
    LET c0 == ClassCount(enc, 0)
        lo == IF k = 0 THEN 0 ELSE c0
        hi == IF k = 0 THEN c0 - 1 ELSE Len(enc) - 1
    IN  Cardinality({j \in lo..hi : j % splits = i})

\* np.arange(n_splits).repeat(allocation[:, k]), from fold i on
FoldsForClass(enc, splits, k, i) ==
    IF i >= splits THEN <<>>
    ELSE [j \in 1..Allocation(enc, splits, i, k) |-> i]
         \o FoldsForClass(enc, splits, k, i + 1)

\* the permutations a generator may draw for a sequence
ShuffleKinds == {"keep", "reverse", "rotate"}

\* rng.shuffle(folds) with the drawn permutation
Shuffled(folds, kind) ==
    LET n == Len(folds)
    IN  [j \in 1..n |->
            CASE kind = "keep" -> folds[j]
              [] kind = "reverse" -> folds[n + 1 - j]
              [] OTHER -> folds[((j + (n \div 2) - 1) % n) + 1]]

\* the two permutations (one per class, drawn in turn) of one generator
RngOutcomes == {<<"keep", "keep">>, <<"reverse", "rotate">>, <<"rotate", "reverse">>}

\* check_random_state: a generator seeded with an int always yields the
\* outcome of that seed, an unseeded one whatever the entropy source gives
check_random_state(seed, seeded, entropy) ==
    IF seed = <<>> THEN entropy ELSE seeded[seed[1]]

\* StratifiedKFold._make_test_folds: the fold of every row
make_test_folds(y, splitter, rng) ==
    LET enc == Encoded(y)
        f0 == IF splitter.shuffle
              THEN Shuffled(FoldsForClass(enc, splitter.n_splits, 0, 0), rng[1])
              ELSE FoldsForClass(enc, splitter.n_splits, 0, 0)
        f1 == IF splitter.shuffle
              THEN Shuffled(FoldsForClass(enc, splitter.n_splits, 1, 0), rng[2])
              ELSE FoldsForClass(enc, splitter.n_splits, 1, 0)
    IN  [i \in 1..Len(y) |->
            LET r == Cardinality({j \in 1..i : enc[j] = enc[i]})
            IN  IF enc[i] = 0 THEN f0[r] ELSE f1[r]]

\* the ValueError of split: more splits than samples, or than the members of
\* every class
SplitRaises(y, splitter) ==
    \/ splitter.n_splits > Len(y)
    \/ \A k \in {Encoded(y)[i] : i \in 1..Len(y)} :
          splitter.n_splits > ClassCount(Encoded(y), k)

\* np.where(test_folds == k) and its complement, ascending
TestIndices(folds, k) ==
    IndexWhere(Len(folds), {i \in 1..Len(folds) : folds[i] = k}, 1)

TrainIndices(folds, k) ==
    IndexWhere(Len(folds), {i \in 1..Len(folds) : folds[i] # k}, 1)

Take(df, idx) == [j \in 1..Len(idx) |-> df[idx[j]]]

\* the sum of the feature columns of a row (line 212 selects them)
Score(r) == r.gold_diff_10 + r.xp_diff_10 + r.cs_diff_10 + r.kills_diff_10

ScoreSum(rows8) ==
    IF rows8 = <<>> THEN 0 ELSE Score(Head(rows8)) + ScoreSum(Tail(rows8))

\* LogisticRegression.fit raises on a training set of one class
FitRaises(train) == Cardinality({train[i].win : i \in 1..Len(train)}) < 2

\* LogisticRegression.fit (surrogate): the score half way between the
\* mean score of the wins and of the losses of the training rows
LogisticRegressionFit(train) ==
    LET wins == SelectSeq(train, LAMBDA r : r.win)
        losses == SelectSeq(train, LAMBDA r : ~r.win)
    IN  [threshold |-> ((ScoreSum(wins) \div Len(wins))
                        + (ScoreSum(losses) \div Len(losses))) \div 2]

\* a slip: the linear score itself, without the logistic link
predict_score(model, r) == 50 + 10 * (Score(r) - model.threshold)

\* predict_proba(X)[:, 1] (surrogate): a probability in hundredths that
\* grows with the score of the row
predict_proba(model, r) ==
    LET s == 50 + 10 * (Score(r) - model.threshold)
    IN  IF s < 0 THEN 0 ELSE IF s > 100 THEN 100 ELSE s

\* _fit_and_predict of one fold: a prediction for every test row, each with
\* the row it is for and the rows its model was fitted on
FitAndPredict(df, folds, k) ==
    LET train == TrainIndices(folds, k)
        test == TestIndices(folds, k)
        model == LogisticRegressionFit(Take(df, train))
    IN  [j \in 1..Len(test) |->
            [p |-> predict_proba(model, df[test[j]]),
             row |-> test[j],
             train |-> {train[t] : t \in 1..Len(train)}]]

\* a slip: the concatenated predictions are returned as they are
Concatenated(preds, test) == preds

\* cross_val_predict: inv_test_indices[test_indices] = arange(n), then
\* predictions[inv_test_indices]
Reordered(preds, test) ==
    [i \in 1..Len(test) |->
        preds[CHOOSE j \in 1..Len(test) : test[j] = i]]

ColumnSum(df, col) ==
    IF df = <<>> THEN 0 ELSE Head(df)[col] + ColumnSum(Tail(df), col)

\* df["p_win_10min"] = p_win_cv
WithPWin(df, p) ==
    [i \in 1..Len(df) |->
        [f \in DOMAIN df[i] \cup {"p_win_10min"} |->
            IF f = "p_win_10min" THEN p[i].p ELSE df[i][f]]]

\* lines 225-227, in hundredths
LuckSummary8(df) ==
    LET actual_wins == Cardinality({i \in 1..Len(df) : df[i].win})
        expected_wins == ColumnSum(df, "p_win_10min")
    IN  [actual_wins |-> actual_wins, expected_wins |-> expected_wins,
         luck_diff |-> 100 * actual_wins - expected_wins]

(***************************************************************************)
(* Inputs of the expectation model                                         *)
(***************************************************************************)
MaxSmallRows == 12
MaxCVRows == 30

\* the numbers of listed matches: the small ones and those around the
\* small-sample limit
ListSizes == (0..MaxSmallRows) \cup ((SMALL_SAMPLE - 1)..MaxCVRows)

WinCounts(n) == {0, 1, 2, 4, n \div 2, n - 1, n} \cap (0..n)

WinLayouts == {"first", "last", "spread"}

\* w wins among n games: the first w, the last w, or spread evenly
WinsOf(n, w, layout) ==
    [i \in 1..n |->
        CASE layout = "first" -> i <= w
          [] layout = "last" -> i > n - w
          [] OTHER -> (i * w) \div n > ((i - 1) * w) \div n]

\* the feature row build_features_for_match returns for a match
BuiltRow(mid, w) ==
    [match_id |-> mid, win |-> w,
     gold_diff_10 |-> (IF w THEN 2 ELSE -2) + (mid % 7) - 3,
     xp_diff_10 |-> (mid % 3) - 1,
     cs_diff_10 |-> 0 - (mid % 2),
     kills_diff_10 |-> IF w THEN 1 ELSE 0]

\* my_games lists the matches n, n-1, ..., 1
ListedIds(n) == [i \in 1..n |-> n + 1 - i]

\* what build_features_for_match returns per match id: a row (<<row>>) or
\* None (<<>>) for the matches in skip
BuiltOf(n, wins, skip) ==
    [mid \in 1..n |->
        IF mid \in skip THEN <<>> ELSE <<BuiltRow(mid, wins[n + 1 - mid])>>]

CVInit ==
    /\ \E n \in ListSizes :
          /\ match_ids = ListedIds(n)
          /\ \E w \in WinCounts(n), layout \in WinLayouts :
                \E skip \in {{}} \cup IF n \in 2..MaxSmallRows THEN {{n - 1}} ELSE {} :
                    built = BuiltOf(n, WinsOf(n, w, layout), skip)
    /\ mt_seeded \in [{RANDOM_STATE} -> RngOutcomes]
    /\ df8 = <<>>
    /\ features_csv = <<>>
    /\ warned = FALSE
    /\ test_folds = <<>>
    /\ fold = 0
    /\ predictions = <<>>
    /\ test_indices = <<>>
    /\ p_win_cv = <<>>
    /\ luck8 = <<>>
    /\ out_pred = <<>>
    /\ prev_run = <<>>
    /\ pc_cv = "start"
    /\ exc_cv = ""

CVIdle ==
    /\ match_ids = <<>>
    /\ built = <<>>
    /\ mt_seeded = <<>>
    /\ df8 = <<>>
    /\ features_csv = <<>>
    /\ warned = FALSE
    /\ test_folds = <<>>
    /\ fold = 0
    /\ predictions = <<>>
    /\ test_indices = <<>>
    /\ p_win_cv = <<>>
    /\ luck8 = <<>>
    /\ out_pred = <<>>
    /\ prev_run = <<>>
    /\ pc_cv = "idle"
    /\ exc_cv = ""

\* lines 197-206: the rows of the listed matches become the feature table
CVExtract ==
    /\ pc_cv = "start"
    /\ df8' = ExtractRows(match_ids, built)
    /\ features_csv' = <<ExtractRows(match_ids, built)>>
    /\ pc_cv' = "features"
    /\ UNCHANGED <<match_ids, built, mt_seeded, warned, test_folds, fold,
                   predictions, test_indices, p_win_cv, luck8, out_pred, prev_run,
                   exc_cv>>
    /\ UNCHANGED <<bvars, s9vars, s8vars, fvars, s6vars, lvars, dlvars>>

\* lines 208-209: the warning of a small table
CVWarnSmall ==
    /\ pc_cv = "features"
    /\ Len(df8) < SMALL_SAMPLE
    /\ warned' = TRUE
    /\ pc_cv' = "checked"
    /\ UNCHANGED <<match_ids, built, features_csv, mt_seeded, df8, test_folds, fold,
                   predictions, test_indices, p_win_cv, luck8, out_pred, prev_run,
                   exc_cv>>
    /\ UNCHANGED <<bvars, s9vars, s8vars, fvars, s6vars, lvars, dlvars>>

\* line 208: no warning from SMALL_SAMPLE rows on
CVNoWarning ==
    /\ pc_cv = "features"
    /\ Len(df8) >= SMALL_SAMPLE
    /\ pc_cv' = "checked"
    /\ UNCHANGED <<match_ids, built, features_csv, mt_seeded, df8, warned, test_folds, fold,
                   predictions, test_indices, p_win_cv, luck8, out_pred, prev_run,
                   exc_cv>>
    /\ UNCHANGED <<bvars, s9vars, s8vars, fvars, s6vars, lvars, dlvars>>

\* line 212: a table built from no rows has no columns to select
CVSelectRaises ==
    /\ pc_cv = "checked"
    /\ df8 = <<>>
    /\ pc_cv' = "raised"
    /\ exc_cv' = "KeyError"
    /\ UNCHANGED <<match_ids, built, features_csv, mt_seeded, df8, warned, test_folds, fold,
                   predictions, test_indices, p_win_cv, luck8, out_pred, prev_run>>
    /\ UNCHANGED <<bvars, s9vars, s8vars, fvars, s6vars, lvars, dlvars>>

\* lines 219-220: the splitter refuses the table
CVSplitRaises ==
    /\ pc_cv = "checked"
    /\ df8 # <<>>
    /\ SplitRaises(YOf(df8), cv)
    /\ pc_cv' = "raised"
    /\ exc_cv' = "ValueError"
    /\ UNCHANGED <<match_ids, built, features_csv, mt_seeded, df8, warned, test_folds, fold,
                   predictions, test_indices, p_win_cv, luck8, out_pred, prev_run>>
    /\ UNCHANGED <<bvars, s9vars, s8vars, fvars, s6vars, lvars, dlvars>>

\* lines 219-220: cross_val_predict asks the splitter for the folds
CVSplit ==
    /\ pc_cv = "checked"
    /\ df8 # <<>>
    /\ ~SplitRaises(YOf(df8), cv)
    /\ \E entropy \in RngOutcomes :
          test_folds' = make_test_folds(YOf(df8), cv,
                            check_random_state(cv.random_state, mt_seeded, entropy))
    /\ fold' = 0
    /\ predictions' = <<>>
    /\ test_indices' = <<>>
    /\ pc_cv' = "fit"
    /\ UNCHANGED <<match_ids, built, features_csv, mt_seeded, df8, warned, p_win_cv, luck8,
                   out_pred, prev_run, exc_cv>>
    /\ UNCHANGED <<bvars, s9vars, s8vars, fvars, s6vars, lvars, dlvars>>

\* line 220: a fold whose training rows are of one class ends the run
CVFitRaises ==
    /\ pc_cv = "fit"
    /\ fold < cv.n_splits
    /\ FitRaises(Take(df8, TrainIndices(test_folds, fold)))
    /\ pc_cv' = "raised"
    /\ exc_cv' = "ValueError"
    /\ UNCHANGED <<match_ids, built, features_csv, mt_seeded, df8, warned, test_folds, fold,
                   predictions, test_indices, p_win_cv, luck8, out_pred, prev_run>>
    /\ UNCHANGED <<bvars, s9vars, s8vars, fvars, s6vars, lvars, dlvars>>

\* line 220: the model is fitted on the other folds and predicts this one
CVFitFold ==
    /\ pc_cv = "fit"
    /\ fold < cv.n_splits
    /\ ~FitRaises(Take(df8, TrainIndices(test_folds, fold)))
    /\ predictions' = predictions \o FitAndPredict(df8, test_folds, fold)
    /\ test_indices' = test_indices \o TestIndices(test_folds, fold)
    /\ fold' = fold + 1
    /\ UNCHANGED <<match_ids, built, features_csv, mt_seeded, df8, warned, test_folds, p_win_cv,
                   luck8, out_pred, prev_run, pc_cv, exc_cv>>
    /\ UNCHANGED <<bvars, s9vars, s8vars, fvars, s6vars, lvars, dlvars>>

\* lines 220-222: the predictions are put back in row order and become the
\* column p_win_10min
CVAssemble ==
    /\ pc_cv = "fit"
    /\ fold = cv.n_splits
    /\ p_win_cv' = Reordered(predictions, test_indices)
    /\ df8' = WithPWin(df8, Reordered(predictions, test_indices))
    /\ pc_cv' = "predicted"
    /\ UNCHANGED <<match_ids, built, features_csv, mt_seeded, warned, test_folds, fold,
                   predictions, test_indices, luck8, out_pred, prev_run, exc_cv>>
    /\ UNCHANGED <<bvars, s9vars, s8vars, fvars, s6vars, lvars, dlvars>>

\* lines 225-229: the luck summary, and the table is written
CVSave ==
    /\ pc_cv = "predicted"
    /\ luck8' = <<LuckSummary8(df8)>>
    /\ out_pred' = <<df8>>
    /\ pc_cv' = "saved"
    /\ UNCHANGED <<match_ids, built, features_csv, mt_seeded, df8, warned, test_folds, fold,
                   predictions, test_indices, p_win_cv, prev_run, exc_cv>>
    /\ UNCHANGED <<bvars, s9vars, s8vars, fvars, s6vars, lvars, dlvars>>

\* the script is run again over the same files
CVRunAgain ==
    /\ pc_cv = "saved"
    /\ prev_run = <<>>
    /\ prev_run' = <<[test_folds |-> test_folds, out_pred |-> out_pred[1]]>>
    /\ df8' = <<>>
    /\ warned' = FALSE
    /\ test_folds' = <<>>
    /\ fold' = 0
    /\ predictions' = <<>>
    /\ test_indices' = <<>>
    /\ p_win_cv' = <<>>
    /\ luck8' = <<>>
    /\ pc_cv' = "start"
    /\ UNCHANGED <<match_ids, built, features_csv, mt_seeded, out_pred, exc_cv>>
    /\ UNCHANGED <<bvars, s9vars, s8vars, fvars, s6vars, lvars, dlvars>>

(***************************************************************************)
(* app.py: the luck differential of the dashboard                          *)
(***************************************************************************)
\* a slip: expected minus actual
luck_metrics_reversed(d) ==
    IF Len(d) = 0
    THEN [games |-> 0, actual_wins |-> 0, expected_wins |-> 0, luck_diff |-> 0]
    ELSE [games |-> Len(d),
          actual_wins |-> Cardinality({i \in 1..Len(d) : d[i].win}),
          expected_wins |-> ColumnSum(d, "p_win_10min"),
          luck_diff |-> ColumnSum(d, "p_win_10min")
                        - 100 * Cardinality({i \in 1..Len(d) : d[i].win})]

\* luck_metrics, lines 120-134; expected_wins and luck_diff in hundredths
luck_metrics(d) ==
    IF Len(d) = 0
    THEN [games |-> 0, actual_wins |-> 0, expected_wins |-> 0, luck_diff |-> 0]
    ELSE [games |-> Len(d),
          actual_wins |-> Cardinality({i \in 1..Len(d) : d[i].win}),
          expected_wins |-> ColumnSum(d, "p_win_10min"),
          luck_diff |-> 100 * Cardinality({i \in 1..Len(d) : d[i].win})
                        - ColumnSum(d, "p_win_10min")]

\* lines 294-300: the bucket and impact tag columns
WithBuckets(df) ==
    [i \in 1..Len(df) |->
        [f \in DOMAIN df[i] \cup {"bucket", "impact_tag"} |->
            IF f = "bucket"
            THEN bucket_rule(df[i].p_win_10min, df[i].win, df[i].impact_score)
            ELSE IF f = "impact_tag" THEN impact_tag(df[i].impact_score)
            ELSE df[i][f]]]

\* the options of a select box: "ALL" and the values of the column
OptionsOf(df, col) == {"ALL"} \cup {df[i][col] : i \in 1..Len(df)}

\* lines 337-354: the sidebar filters, applied in turn (the table has no
\* champion_name column, so the champion filter is skipped)
ApplyFilters(df, role_choice, bucket_choice, impact_choice, win_choice) ==
    LET f1 == IF role_choice # "ALL"
              THEN SelectSeq(df, LAMBDA r : r.role = role_choice) ELSE df
        f2 == IF bucket_choice # "ALL"
              THEN SelectSeq(f1, LAMBDA r : r.bucket = bucket_choice) ELSE f1
        f3 == IF impact_choice # "ALL"
              THEN SelectSeq(f2, LAMBDA r : r.impact_tag = impact_choice) ELSE f2
    IN  IF win_choice = "WIN" THEN SelectSeq(f3, LAMBDA r : r.win)
        ELSE IF win_choice = "LOSS" THEN SelectSeq(f3, LAMBDA r : ~r.win)
        ELSE f3

\* lines 369-375: the summary line; the amount is printed with two decimals,
\* which is the value in hundredths
SummaryOf(ld) ==
    IF ld > 0 THEN [text |-> "You won {:.2f} more than expected", amount |-> ld]
    ELSE IF ld < 0 THEN [text |-> "You lost {:.2f} more than expected", amount |-> 0 - ld]
    ELSE [text |-> "You won exactly as expected", amount |-> 0]

MaxLuckGames == 3

\* a scored game of the dashboard table
ScoredGame(i, w, p) ==
    [match_id |-> i, win |-> w, p_win_10min |-> p,
     role |-> IF i % 2 = 1 THEN "TOP" ELSE "MIDDLE",
     impact_score |-> 60 * ((i % 3) - 1)]

\* every table of up to MaxLuckGames games, and four even games with w wins
DashTables ==
    UNION {{[i \in 1..n |-> ScoredGame(i, c[i][1], c[i][2])] :
               c \in [1..n -> BOOLEAN \X {50, 65}]} : n \in 0..MaxLuckGames}
    \cup {[i \in 1..4 |-> ScoredGame(i, i <= w, 50)] : w \in 0..4}

DashInit ==
    /\ dash_df \in DashTables
    /\ f_df = <<>>
    /\ full_luck = <<>>
    /\ filt_luck = <<>>
    /\ msg = <<>>
    /\ pc_dash = "start"

DashIdle ==
    /\ dash_df = <<>>
    /\ f_df = <<>>
    /\ full_luck = <<>>
    /\ filt_luck = <<>>
    /\ msg = <<>>
    /\ pc_dash = "idle"

\* lines 294-354: the derived columns and the filters chosen in the sidebar
DashFilter ==
    /\ pc_dash = "start"
    /\ dash_df' = WithBuckets(dash_df)
    /\ \E role_choice \in OptionsOf(dash_df, "role"),
          bucket_choice \in OptionsOf(WithBuckets(dash_df), "bucket"),
          impact_choice \in OptionsOf(WithBuckets(dash_df), "impact_tag"),
          win_choice \in {"ALL", "WIN", "LOSS"} :
          f_df' = <<ApplyFilters(WithBuckets(dash_df), role_choice, bucket_choice,
                                 impact_choice, win_choice)>>
    /\ pc_dash' = "filtered"
    /\ UNCHANGED <<full_luck, filt_luck, msg>>
    /\ UNCHANGED <<bvars, s9vars, s8vars, fvars, s6vars, cvvars, dlvars>>

\* lines 358-359
DashLuck ==
    /\ pc_dash = "filtered"
    /\ full_luck' = <<luck_metrics(dash_df)>>
    /\ filt_luck' = <<luck_metrics(f_df[1])>>
    /\ pc_dash' = "measured"
    /\ UNCHANGED <<dash_df, f_df, msg>>
    /\ UNCHANGED <<bvars, s9vars, s8vars, fvars, s6vars, cvvars, dlvars>>

\* lines 369-377
DashSummary ==
    /\ pc_dash = "measured"
    /\ msg' = <<SummaryOf(filt_luck[1].luck_diff)>>
    /\ pc_dash' = "shown"
    /\ UNCHANGED <<dash_df, f_df, full_luck, filt_luck>>
    /\ UNCHANGED <<bvars, s9vars, s8vars, fvars, s6vars, cvvars, dlvars>>

(***************************************************************************)
(* The record downloaders: riot_get (get_matches.py, S07) and the download *)
(* loops of 02_download_matches.py and S07_download_timelines.py.  The two *)
(* loops have the same steps; S07 also requires the directory of the match *)
(* files.  The server's answers, and an interruption of the process, are   *)
(* choices of the environment.                                             *)
(***************************************************************************)
DEFAULT_RETRIES == 3
RATE_LIMITED == 429
ERROR_STATUS == 400

\* what a request can come back with: a status with a JSON body, a status
\* below 400 with a body that is not JSON, or no answer at all
Responses ==
    {[status |-> st, json |-> TRUE, failed |-> FALSE] : st \in {200, 399, 400, 404, 429, 500}}
    \cup {[status |-> 200, json |-> FALSE, failed |-> FALSE],
          [status |-> 0, json |-> FALSE, failed |-> TRUE]}

\* a slip: the status that ends the call is tested with > instead of >=
AfterResponseStrict(r) ==
    IF r.failed THEN "raise:ConnectionError"
    ELSE IF r.status = RATE_LIMITED THEN "retry"
    ELSE IF r.status > ERROR_STATUS THEN "raise:Request failed"
    ELSE IF ~r.json THEN "raise:JSONDecodeError"
    ELSE "return"

\* riot_get, the body of the loop: what one answer makes of the call
AfterResponse(r) ==
    IF r.failed THEN "raise:ConnectionError"
    ELSE IF r.status = RATE_LIMITED THEN "retry"
    ELSE IF r.status >= ERROR_STATUS THEN "raise:Request failed"
    ELSE IF ~r.json THEN "raise:JSONDecodeError"
    ELSE "return"

Absent == <<>>
PartialFile(id) == <<[match_id |-> id, complete |-> FALSE]>>
CompleteFile(id) == <<[match_id |-> id, complete |-> TRUE]>>

\* a slip: no file is ever skipped
NeverExists(files, id) == FALSE

\* out_path.exists()
Exists(files, id) == files[id] # Absent

MaxDLMatches == 2
MaxRuns == 2

DLInit ==
    /\ \E n \in 0..MaxDLMatches :
          /\ dl_list \in {<<>>, <<[i \in 1..n |-> i]>>}
          /\ store \in [1..MaxDLMatches -> {Absent}] \cup
                       {f \in [1..MaxDLMatches ->
                                 {Absent} \cup {CompleteFile(i) : i \in 1..MaxDLMatches}] :
                           \A i \in 1..MaxDLMatches :
                               f[i] \in {Absent, CompleteFile(i)} /\ (i > n => f[i] = Absent)}
    /\ store0 = store
    /\ retries = DEFAULT_RETRIES
    /\ dl_i = 0
    /\ dl_pc = "start"
    /\ dl_exc = ""
    /\ rg_log = <<>>
    /\ rg_waits = 0
    /\ rg_result = <<>>
    /\ run_fetches = <<>>
    /\ dl_run = 1
    /\ prev_end = ""

DLIdle ==
    /\ dl_list = <<>>
    /\ store = <<>>
    /\ store0 = <<>>
    /\ retries = DEFAULT_RETRIES
    /\ dl_i = 0
    /\ dl_pc = "idle"
    /\ dl_exc = ""
    /\ rg_log = <<>>
    /\ rg_waits = 0
    /\ rg_result = <<>>
    /\ run_fetches = <<>>
    /\ dl_run = 1
    /\ prev_end = ""

\* S07 main, lines 63-64: the directory of the match files is required
DLMissingDir ==
    /\ dl_pc = "start"
    /\ dl_list = <<>>
    /\ dl_pc' = "raised"
    /\ dl_exc' = "FileNotFoundError"
    /\ UNCHANGED <<dl_list, store, store0, retries, dl_i, rg_log, rg_waits,
                   rg_result, run_fetches, dl_run, prev_end>>
    /\ UNCHANGED <<bvars, s9vars, s8vars, fvars, s6vars, cvvars, lvars>>

\* S07 main, lines 66-69; 02_download_matches, line 43: the loop starts
DLBegin ==
    /\ dl_pc = "start"
    /\ dl_list # <<>>
    /\ dl_i' = 1
    /\ dl_pc' = "loop"
    /\ UNCHANGED <<dl_list, store, store0, retries, dl_exc, rg_log, rg_waits,
                   rg_result, run_fetches, dl_run, prev_end>>
    /\ UNCHANGED <<bvars, s9vars, s8vars, fvars, s6vars, cvvars, lvars>>

\* S07 main, lines 74-76; 02_download_matches, lines 47-49: skip if the file exists
DLSkip ==
    /\ dl_pc = "loop"
    /\ dl_i <= Len(dl_list[1])
    /\ Exists(store, dl_list[1][dl_i])
    /\ dl_i' = dl_i + 1
    /\ UNCHANGED <<dl_list, store, store0, retries, dl_pc, dl_exc, rg_log,
                   rg_waits, rg_result, run_fetches, dl_run, prev_end>>
    /\ UNCHANGED <<bvars, s9vars, s8vars, fvars, s6vars, cvvars, lvars>>

\* S07 main, lines 78-79; 02_download_matches, lines 51-52: riot_get is called
DLCall ==
    /\ dl_pc = "loop"
    /\ dl_i <= Len(dl_list[1])
    /\ ~Exists(store, dl_list[1][dl_i])
    /\ run_fetches' = Append(run_fetches, dl_list[1][dl_i])
    /\ rg_log' = <<>>
    /\ rg_waits' = 0
    /\ rg_result' = <<>>
    /\ dl_pc' = "fetch"
    /\ UNCHANGED <<dl_list, store, store0, retries, dl_i, dl_exc, dl_run, prev_end>>
    /\ UNCHANGED <<bvars, s9vars, s8vars, fvars, s6vars, cvvars, lvars>>

\* riot_get, one turn of the loop: a request and what its answer leads to
RGRequest ==
    /\ dl_pc = "fetch"
    /\ Len(rg_log) < retries
    /\ \E r \in Responses :
          /\ rg_log' = Append(rg_log, r)
          /\ rg_waits' = IF AfterResponse(r) = "retry" THEN rg_waits + 1 ELSE rg_waits
          /\ rg_result' = IF AfterResponse(r) = "return"
                          THEN CompleteFile(dl_list[1][dl_i]) ELSE <<>>
          /\ dl_pc' = CASE AfterResponse(r) = "retry" -> "fetch"
                        [] AfterResponse(r) = "return" -> "fetched"
                        [] OTHER -> "raised"
          /\ dl_exc' = IF AfterResponse(r) \in {"retry", "return"}
                       THEN dl_exc ELSE AfterResponse(r)
    /\ UNCHANGED <<dl_list, store, store0, retries, dl_i, run_fetches, dl_run,
                   prev_end>>
    /\ UNCHANGED <<bvars, s9vars, s8vars, fvars, s6vars, cvvars, lvars>>

\* riot_get, the line after the loop: every attempt was rate limited
RGTooManyRetries ==
    /\ dl_pc = "fetch"
    /\ Len(rg_log) >= retries
    /\ dl_pc' = "raised"
    /\ dl_exc' = "raise:Too many retries"
    /\ UNCHANGED <<dl_list, store, store0, retries, dl_i, rg_log, rg_waits,
                   rg_result, run_fetches, dl_run, prev_end>>
    /\ UNCHANGED <<bvars, s9vars, s8vars, fvars, s6vars, cvvars, lvars>>

\* out_path.write_text, first half: the file is created or cut to length 0
\* and written from its start
DLWriteOpen ==
    /\ dl_pc = "fetched"
    /\ store' = [store EXCEPT ![dl_list[1][dl_i]] = PartialFile(dl_list[1][dl_i])]
    /\ dl_pc' = "writing"
    /\ UNCHANGED <<dl_list, store0, retries, dl_i, dl_exc, rg_log, rg_waits,
                   rg_result, run_fetches, dl_run, prev_end>>
    /\ UNCHANGED <<bvars, s9vars, s8vars, fvars, s6vars, cvvars, lvars>>

\* out_path.write_text, second half: the text is on disk; then the pause and
\* the next match (S07 lines 81-85, 02_download_matches lines 54-58)
DLWriteClose ==
    /\ dl_pc = "writing"
    /\ store' = [store EXCEPT ![dl_list[1][dl_i]] = rg_result]
    /\ dl_i' = dl_i + 1
    /\ dl_pc' = "loop"
    /\ UNCHANGED <<dl_list, store0, retries, dl_exc, rg_log, rg_waits, rg_result,
                   run_fetches, dl_run, prev_end>>
    /\ UNCHANGED <<bvars, s9vars, s8vars, fvars, s6vars, cvvars, lvars>>

\* the loop has gone through the list
DLDone ==
    /\ dl_pc = "loop"
    /\ dl_i > Len(dl_list[1])
    /\ dl_pc' = "done"
    /\ UNCHANGED <<dl_list, store, store0, retries, dl_i, dl_exc, rg_log, rg_waits,
                   rg_result, run_fetches, dl_run, prev_end>>
    /\ UNCHANGED <<bvars, s9vars, s8vars, fvars, s6vars, cvvars, lvars>>

\* the process is stopped from outside (Ctrl-C, kill, power) at any point
DLInterrupt ==
    /\ dl_pc \in {"loop", "fetch", "fetched", "writing"}
    /\ dl_pc' = "interrupted"
    /\ UNCHANGED <<dl_list, store, store0, retries, dl_i, dl_exc, rg_log, rg_waits,
                   rg_result, run_fetches, dl_run, prev_end>>
    /\ UNCHANGED <<bvars, s9vars, s8vars, fvars, s6vars, cvvars, lvars>>

\* the script is run again over the same list and the files left behind
DLRerun ==
    /\ dl_pc \in {"done", "raised", "interrupted"}
    /\ dl_run < MaxRuns
    /\ dl_run' = dl_run + 1
    /\ prev_end' = dl_pc
    /\ store0' = store
    /\ dl_i' = 0
    /\ dl_pc' = "start"
    /\ dl_exc' = ""
    /\ rg_log' = <<>>
    /\ rg_waits' = 0
    /\ rg_result' = <<>>
    /\ run_fetches' = <<>>
    /\ UNCHANGED <<dl_list, store, retries>>
    /\ UNCHANGED <<bvars, s9vars, s8vars, fvars, s6vars, cvvars, lvars>>

(***************************************************************************)
(* Specifications                                                          *)
(***************************************************************************)
\* the classifier, call by call
BucketNext ==
    \/ CallBucketGame
    \/ CallBucketRule
    \/ CallImpactTag
    \/ NextBucketInput

InitBucket == BucketInit /\ S09Idle /\ S08Idle /\ S06Idle /\ CVIdle /\ DashIdle /\ DLIdle

SpecBucket == InitBucket /\ [][BucketNext]_vars

\* S09 main
S09Next ==
    \/ S09MissingInput
    \/ S09Merge
    \/ S09Bucket
    \/ S09BucketEmptyRaises
    \/ S09Save

InitS09 == S09Init /\ BucketIdle /\ S08Idle /\ S06Idle /\ CVIdle /\ DashIdle /\ DLIdle

SpecS09 == InitS09 /\ [][S09Next]_vars

\* S08 main
S08Next ==
    \/ S08MissingGames
    \/ S08NoGames
    \/ S08Read
    \/ S08LoopBody
    \/ S08WriteFeatures
    \/ S08RunAgain

Init == S08Init /\ BucketIdle /\ S09Idle /\ S06Idle /\ CVIdle /\ DashIdle /\ DLIdle

SpecS08 == Init /\ [][S08Next]_vars

\* S05 and S06 main, two programs over the same player table
S06Next ==
    \/ S06MissingInput
    \/ S06NoGames
    \/ S06Read
    \/ S06BuildImpact
    \/ S06BuildImpactOneRoleRaises
    \/ S06Rank
    \/ S06Save
    \/ S05MissingInput
    \/ S05NoGames
    \/ S05Rank

InitS06 == S06Init /\ BucketIdle /\ S09Idle /\ S08Idle /\ CVIdle /\ DashIdle /\ DLIdle

SpecS06 == InitS06 /\ [][S06Next]_vars

\* S08 main after the loop: the expectation model
CVNext ==
    \/ CVExtract
    \/ CVWarnSmall
    \/ CVNoWarning
    \/ CVSelectRaises
    \/ CVSplitRaises
    \/ CVSplit
    \/ CVFitRaises
    \/ CVFitFold
    \/ CVAssemble
    \/ CVSave
    \/ CVRunAgain

InitCV == CVInit /\ BucketIdle /\ S09Idle /\ S08Idle /\ S06Idle /\ DashIdle /\ DLIdle

SpecCV == InitCV /\ [][CVNext]_vars

\* the luck differential of the dashboard
DashNext ==
    \/ DashFilter
    \/ DashLuck
    \/ DashSummary

InitDash == DashInit /\ BucketIdle /\ S09Idle /\ S08Idle /\ S06Idle /\ CVIdle /\ DLIdle

SpecDash == InitDash /\ [][DashNext]_vars

\* a downloader, run and run again
DLNext ==
    \/ DLMissingDir
    \/ DLBegin
    \/ DLSkip
    \/ DLCall
    \/ RGRequest
    \/ RGTooManyRetries
    \/ DLWriteOpen
    \/ DLWriteClose
    \/ DLDone
    \/ DLInterrupt
    \/ DLRerun

InitDL == DLInit /\ BucketIdle /\ S09Idle /\ S08Idle /\ S06Idle /\ CVIdle /\ DashIdle

SpecDL == InitDL /\ [][DLNext]_vars

\* every request is answered or fails within its timeout, and the script
\* takes its next step
SpecDLFair == InitDL /\ [][DLNext]_vars /\ WF_vars(DLNext)

\* the default specification is the batch feature builder
Next == S08Next
Spec == Init /\ [][Next]_vars


(***************************************************************************)
(* Properties                                                              *)
(***************************************************************************)
\* the ordered rule table of the classifier as the specification states it
RuleTable(p, w, impact) ==
    << [cond |-> (~w) /\ p >= 65 /\ impact <= -50, label |-> "THROW"],
       [cond |-> (~w) /\ p >= 65 /\ impact >= 50,  label |-> "UNLUCKY LOSS"],
       [cond |-> (~w) /\ p >= 65,                  label |-> "UPSET LOSS"],
       [cond |-> w /\ p <= 40 /\ impact >= 50,     label |-> "CLUTCH WIN"],
       [cond |-> w /\ p <= 40 /\ impact <= -50,    label |-> "LUCKY WIN"],
       [cond |-> w /\ p <= 40,                     label |-> "UPSET WIN"],
       [cond |-> w /\ p >= 65,                     label |-> "EXPECTED WIN"],
       [cond |-> (~w) /\ p <= 40,                  label |-> "EXPECTED LOSS"],
       [cond |-> TRUE, label |-> IF w THEN "TOSS-UP WIN" ELSE "TOSS-UP LOSS"] >>

FirstMatch(table) ==
    table[CHOOSE i \in 1..Len(table) :
            table[i].cond /\ \A j \in 1..(i - 1) : ~table[j].cond].label

ExampleLabel(p, w, impact, label) ==
    b_in = [p_win |-> p, win |-> w, impact |-> impact] =>
        /\ b_game # <<>> => b_game = <<label>>
        /\ b_rule # <<>> => b_rule = <<label>>

\* C1: for every input (p_win, win, impact), bucket_game (S09) and bucket_rule
\* (app.py) return the label of the first matching rule of the ordered table of
\* nine rules, and the four documented examples get their documented labels.
C1_BucketIsFirstMatchingRule ==
    /\ b_game # <<>> =>
          b_game[1] = FirstMatch(RuleTable(b_in.p_win, b_in.win, b_in.impact))
    /\ b_rule # <<>> =>
          b_rule[1] = FirstMatch(RuleTable(b_in.p_win, b_in.win, b_in.impact))
    /\ ExampleLabel(80, FALSE, 60, "UNLUCKY LOSS")
    /\ ExampleLabel(80, FALSE, -60, "THROW")
    /\ ExampleLabel(20, TRUE, 60, "CLUTCH WIN")
    /\ ExampleLabel(50, TRUE, 0, "TOSS-UP WIN")

\* both classifiers have labelled a loss that only the third rule matches
C1_Witness ==
    /\ b_in = [p_win |-> 65, win |-> FALSE, impact |-> 49]
    /\ b_game = <<"UPSET LOSS">>
    /\ b_rule = <<"UPSET LOSS">>

SameInputs(r1, r2) ==
    /\ r1.win = r2.win
    /\ r1.p_win_10min = r2.p_win_10min
    /\ r1.impact_score = r2.impact_score

EveryRowLabelled(table) ==
    /\ \A i \in 1..Len(table) :
          /\ "bucket" \in DOMAIN table[i]
          /\ table[i].bucket \in Labels
    /\ \A i, j \in 1..Len(table) :
          SameInputs(table[i], table[j]) => table[i].bucket = table[j].bucket

\* C2: every row of the scored table has a bucket, the bucket is one of the
\* ten labels, and two rows with the same (win, p_win, impact) have the same
\* bucket wherever they stand in the table and whatever the other rows are.
C2_EveryScoredRowHasOneOfTenLabels ==
    /\ pc9 \in {"bucketed", "saved"} => EveryRowLabelled(df9)
    /\ out_scored # <<>> =>
          /\ EveryRowLabelled(out_scored[1])
          /\ Len(out_scored[1]) = Len(MergeInner(impact_df[1], probs_df[1]))

\* a saved scored table of two rows that carry two different labels
C2_Witness ==
    /\ pc9 = "saved"
    /\ Len(out_scored[1]) = 2
    /\ out_scored[1][1].bucket = "EXPECTED WIN"
    /\ out_scored[1][2].bucket = "TOSS-UP LOSS"


\* ---- the last build_features_for_match call, seen from main
LastId == my_games[1][idx8 - 1].match_id
Called == pc8 \in {"loop", "raised"} /\ idx8 >= 2
Loaded == Called /\ match_json # <<>> /\ timeline_json # <<>>
RowEmitted == Loaded /\ kills_diff_10 # <<>>
LastParticipants == Participants(match_json[1])
LastFrames == Frames(timeline_json[1])
HasTarget == \E i \in 1..Len(LastParticipants) : LastParticipants[i].puuid = Me
SnapshotTaken == Loaded /\ win # <<>>   \* line 171 was reached

NoFramesError == "ValueError: Timeline has no frames."
NoParticipantError == "ValueError: Could not find my puuid in match participants."

MatchUnavailable(mid) == match_dir[mid] = <<>> \/ timeline_dir[mid] = <<>>
TargetMissing(mid) ==
    /\ match_dir[mid] # <<>>
    /\ \A i \in 1..Len(Participants(match_dir[mid][1])) :
          Participants(match_dir[mid][1])[i].puuid # Me
HasRow(table, mid) == \E i \in 1..Len(table) : table[i].match_id = mid

\* C5: a match whose match record or timeline record is unavailable, or whose
\* target participant cannot be located, emits no row and does not abort the
\* batch: the loop goes on with the remaining match ids.
C5_SkippedMatchNeverAborts ==
    (Called /\ (MatchUnavailable(LastId) \/ TargetMissing(LastId))) =>
        /\ pc8 = "loop"
        /\ ~HasRow(rows, LastId)

FirstTarget ==
    CHOOSE i \in 1..Len(LastParticipants) :
        /\ LastParticipants[i].puuid = Me
        /\ \A j \in 1..(i - 1) : LastParticipants[j].puuid # Me

\* C6: the team resolver returns the team side recorded for the (first)
\* participant whose identifier is the target's, raises exactly when no
\* participant has that identifier, and the participant-to-team mapping holds
\* exactly the match's participants with their recorded team side.
C6_TeamResolver ==
    Loaded =>
        /\ HasTarget => /\ my_team = <<LastParticipants[FirstTarget].teamId>>
                        /\ exc # NoParticipantError
        /\ ~HasTarget => /\ my_team = <<>>
                         /\ exc = NoParticipantError
                         /\ pc8 = "raised"
        /\ DOMAIN pid_to_team =
              { LastParticipants[i].participantId : i \in 1..Len(LastParticipants) }
        /\ \A i \in 1..Len(LastParticipants) :
              pid_to_team[LastParticipants[i].participantId] = LastParticipants[i].teamId

\* the target is the second of two participants, on the other side than the first
C6_Witness ==
    /\ Loaded
    /\ Len(LastParticipants) = 2
    /\ LastParticipants[1].puuid # Me
    /\ LastParticipants[1].teamId = 100
    /\ LastParticipants[2].puuid = Me
    /\ my_team = <<200>>
    /\ pid_to_team[1] = 100
    /\ pid_to_team[2] = 200

\* ---- the snapshot sums, stated over sets
\* the participant a participantFrames key names
KeyPid(key) == IF key = <<1>> THEN 1 ELSE IF key = <<2>> THEN 2
               ELSE IF key = <<3>> THEN 3 ELSE 10

RECURSIVE SumOver(_, _)
SumOver(S, f) ==
    IF S = {} THEN 0
    ELSE LET x == CHOOSE y \in S : TRUE IN f[x] + SumOver(S \ {x}, f)

KeysOfTeam(frame, map, t) ==
    { k \in DOMAIN frame.participantFrames :
        KeyPid(k) \in DOMAIN map /\ map[KeyPid(k)] = t }

FieldSum(frame, map, t, field) ==
    SumOver(KeysOfTeam(frame, map, t),
            [k \in KeysOfTeam(frame, map, t) |->
                IF field \in DOMAIN frame.participantFrames[k]
                THEN frame.participantFrames[k][field] ELSE 0])

TeamSnapshot(frame, map, t) ==
    [gold |-> FieldSum(frame, map, t, "totalGold"),
     xp |-> FieldSum(frame, map, t, "xp"),
     cs |-> FieldSum(frame, map, t, "minionsKilled")
            + FieldSum(frame, map, t, "jungleMinionsKilled")]

\* C7: each team's totals (gold, xp, cs = lane + jungle minions) are the sums
\* over exactly the participant frames whose participant is mapped to that
\* team; a participant frame mapped to no team adds to neither and no error
\* is raised.
C7_TeamTotalsSumMappedParticipants ==
    /\ frame10 # <<>> => totals10 # <<>>
    /\ totals10 # <<>> =>
          /\ DOMAIN totals10[1] = {100, 200}
          /\ \A t \in {100, 200} :
                totals10[1][t] = TeamSnapshot(frame10[1], pid_to_team, t)

\* totals of a frame in which participant 3 is on neither side and key "10"
\* names no participant of the mapping, while both sides have collected something
C7_Witness ==
    /\ totals10 # <<>>
    /\ pid_to_team = <<100, 200, 300>>
    /\ <<1, 0>> \in DOMAIN frame10[1].participantFrames
    /\ "jungleMinionsKilled" \in DOMAIN frame10[1].participantFrames[<<1>>]
    /\ "totalGold" \in DOMAIN frame10[1].participantFrames[<<3>>]
    /\ totals10[1][100].cs > 0
    /\ totals10[1][200].gold > 0

\* C8: in every emitted row the three differentials are the target side's
\* total minus the opposing side's total, all of one snapshot frame, and a
\* second run over the same records writes the same feature table.
C8_DiffsFromOneSnapshot ==
    /\ RowEmitted =>
          LET r == rows[Len(rows)]
              me == TeamSnapshot(frame10[1], pid_to_team, my_team[1])
              opp == TeamSnapshot(frame10[1], pid_to_team,
                                  IF my_team[1] = 100 THEN 200 ELSE 100)
          IN  /\ r.match_id = LastId
              /\ r.gold_diff_10 = me.gold - opp.gold
              /\ r.xp_diff_10 = me.xp - opp.xp
              /\ r.cs_diff_10 = me.cs - opp.cs
    /\ (pc8 = "features_written" /\ prev_features # <<>>) =>
          out_features = prev_features[1]

\* the second run has rewritten a table whose row has a gold deficit and an xp lead
C8_Witness ==
    /\ pc8 = "features_written"
    /\ prev_features # <<>>
    /\ Len(out_features[1]) = 1
    /\ out_features[1][1].gold_diff_10 < 0
    /\ out_features[1][1].xp_diff_10 > 0
    /\ out_features = prev_features[1]

\* ---- the kill window, stated over the set of event positions
EventPositions ==
    { <<f, i>> \in (1..Len(LastFrames)) \X (1..MaxEvents + 1) :
        i <= Len(LastFrames[f].events) }
EventAt(pos) == LastFrames[pos[1]].events[pos[2]]

KillsCredited(t) ==
    { pos \in EventPositions :
        /\ EventAt(pos).type = "CHAMPION_KILL"
        /\ "timestamp" \in DOMAIN EventAt(pos)
        /\ EventAt(pos).timestamp <= 600000
        /\ "killerId" \in DOMAIN EventAt(pos)
        /\ EventAt(pos).killerId # 0
        /\ EventAt(pos).killerId \in DOMAIN pid_to_team
        /\ pid_to_team[EventAt(pos).killerId] = t }

\* C9: the kill differential is the number of kill events with timestamp <=
\* cutoff whose killer is mapped to the target team minus the number whose
\* killer is mapped to the opposing team; an event at exactly the cutoff
\* counts, one after it does not, one without a killer (absent or 0) counts
\* for neither side.
C9_KillDifferential ==
    kills_diff_10 # <<>> =>
        kills_diff_10[1] =
            Cardinality(KillsCredited(my_team[1]))
            - Cardinality(KillsCredited(IF my_team[1] = 100 THEN 200 ELSE 100))

\* a kill by the target side at exactly the cutoff is counted while a kill by
\* the other side just after it is not
C9_Witness ==
    /\ kills_diff_10 = <<1>>
    /\ my_team = <<100>>
    /\ LastFrames[1].events = << KillBy(600000, 1) >>
    /\ LastFrames[2].events = << KillBy(600001, 2) >>

HasBothRecords(mid) == match_dir[mid] # <<>> /\ timeline_dir[mid] # <<>>

RowsFor(table, mid) == { i \in 1..Len(table) : table[i].match_id = mid }

\* C10: after the loop over the match list the feature table holds exactly
\* one row for each listed match that has both a match record and a timeline
\* record, and no row for any other match.
C10_OneRowPerMatchWithBothRecords ==
    pc8 = "features_written" =>
        /\ \A k \in 1..Len(my_games[1]) :
              Cardinality(RowsFor(out_features[1], my_games[1][k].match_id)) =
                  IF HasBothRecords(my_games[1][k].match_id) THEN 1 ELSE 0
        /\ \A i \in 1..Len(out_features[1]) :
              \E k \in 1..Len(my_games[1]) :
                  out_features[1][i].match_id = my_games[1][k].match_id
        /\ out_features[1] = rows

\* two listed matches, the first without a timeline: one row, for the second
C10_Witness ==
    /\ pc8 = "features_written"
    /\ Len(my_games[1]) = 2
    /\ ~HasBothRecords(1)
    /\ match_dir[1] # <<>>
    /\ HasBothRecords(2)
    /\ Len(out_features[1]) = 1
    /\ out_features[1][1].match_id = 2


(***************************************************************************)
(* Properties of the impact score (S05 / S06)                              *)
(***************************************************************************)
\* S06 main has the z columns and the impact score of every player
Scored == pc6 \in {"scored", "ranked", "saved"}

MetricCols == {"damage_share", "kill_participation", "cs_per_min", "vision_per_min"}

ZName == [c \in MetricCols |->
             CASE c = "damage_share" -> "z_damage_share"
               [] c = "kill_participation" -> "z_kill_participation"
               [] c = "cs_per_min" -> "z_cs_per_min"
               [] OTHER -> "z_vision_per_min"]

\* the rows of all_df with the role of row i
SameRoleAs(i) == {j \in 1..Len(all_df) : RoleOf(all_df[j]) = RoleOf(all_df[i])}

\* all players of the role of row i have the same value of the metric
ZeroVariance(col, i) == \A j \in SameRoleAs(i) : all_df[j][col] = all_df[i][col]

\* C11: in a role group whose values of a metric are all equal (a group of
\* one player included) every standardized value of that metric is exactly 0.
C11_ZeroVarianceGivesZero ==
    Scored =>
        \A col \in MetricCols : \A i \in 1..Len(all_df) :
            ZeroVariance(col, i) => all_df[i][ZName[col]] = FZero

\* a state in which the guard of z was defeated by rounding: three TOP
\* players with the same damage share whose z is not 0
C11_Witness ==
    /\ Scored
    /\ \E i \in 1..Len(all_df) :
          /\ Cardinality(SameRoleAs(i)) = 3
          /\ ZeroVariance("damage_share", i)
          /\ all_df[i].z_damage_share # FZero

\* the values of a column in the rows S, in the order of the frame
GroupVals(col, S) == ColumnOf(all_df, IndexWhere(Len(all_df), S, 1), col)

\* the least exponent among the floats of a sequence
RECURSIVE MinExp(_)
MinExp(fs) ==
    IF fs = <<>> THEN 0
    ELSE IF Len(fs) = 1 THEN Head(fs).e
    ELSE IF Head(fs).e < MinExp(Tail(fs)) THEN Head(fs).e ELSE MinExp(Tail(fs))

\* the sum of the mantissas of a sequence of floats in units of 2^e0
RECURSIVE MantissaSum(_, _)
MantissaSum(fs, e0) ==
    IF fs = <<>> THEN 0
    ELSE Head(fs).m * Pow2(Head(fs).e - e0) + MantissaSum(Tail(fs), e0)

\* the exact sum of a sequence of floats, as the dyadic number m * 2^e
ExactSum(fs) ==
    LET nz == SelectSeq(fs, LAMBDA f : f.m # 0)
    IN  [m |-> MantissaSum(nz, MinExp(nz)), e |-> MinExp(nz)]

\* a * 2^ea <= b * 2^eb for integers a, b >= 0, exactly
DyadicLe(a, ea, b, eb) ==
    IF a = 0 THEN TRUE
    ELSE IF b = 0 THEN FALSE
    ELSE IF BitLen(a) + ea < BitLen(b) + eb THEN TRUE
    ELSE IF BitLen(a) + ea > BitLen(b) + eb THEN FALSE
    ELSE IF ea >= eb THEN a * Pow2(ea - eb) <= b
    ELSE a <= b * Pow2(eb - ea)

RECURSIVE FMaxAbs(_)
\* the greatest absolute value of a non-empty sequence of floats
FMaxAbs(fs) ==
    LET h == [m |-> AbsInt(Head(fs).m), e |-> Head(fs).e]
    IN  IF Len(fs) = 1 THEN h
        ELSE IF FLe(FMaxAbs(Tail(fs)), h) THEN h ELSE FMaxAbs(Tail(fs))

\* the population standard deviation of a group, written out:
\* sqrt(sum((mean - x)^2) / n) with mean = sum(x) / n
PopulationStd(vals) ==
    FSqrt(FDiv(FSum([k \in 1..Len(vals) |->
                        FMul(FSub(FDiv(FSum(vals, FZero), RoundInt(Len(vals), 0)), vals[k]),
                             FSub(FDiv(FSum(vals, FZero), RoundInt(Len(vals), 0)), vals[k]))],
                    FZero),
               RoundInt(Len(vals), 0)))

\* |sum of zs| * std <= (n^2 + 4n) * eps * max|x|, eps = 2^(1 - FloatBits)
SumsToZeroUpToRounding(zs, xs) ==
    DyadicLe(AbsInt(ExactSum(zs).m) * PopulationStd(xs).m,
             ExactSum(zs).e + PopulationStd(xs).e,
             (Len(xs) * Len(xs) + 4 * Len(xs)) * FMaxAbs(xs).m,
             FMaxAbs(xs).e + 1 - FloatBits)

\* a role group of more than one player whose values of col differ
Standardizable(col, i) == Cardinality(SameRoleAs(i)) > 1 /\ ~ZeroVariance(col, i)

\* C12 as stated: the standardized values of such a group sum to exactly zero.
C12_Original_SumExactlyZero ==
    Scored =>
        \A col \in MetricCols : \A i \in 1..Len(all_df) :
            Standardizable(col, i) =>
                ExactSum(GroupVals(ZName[col], SameRoleAs(i))).m = 0

\* C12 (amended): in a role group of more than one player with differing
\* values, z is the floating-point quotient of (x - mean) by the population
\* standard deviation, both taken over the players of that role only, and
\* the z values of the group sum to zero up to rounding error.
C12_StandardizedWithinRole ==
    Scored =>
        \A col \in MetricCols : \A i \in 1..Len(all_df) :
            Standardizable(col, i) =>
                /\ all_df[i][ZName[col]] =
                      FDiv(FSub(all_df[i][col],
                                FDiv(FSum(GroupVals(col, SameRoleAs(i)), FZero),
                                     RoundInt(Cardinality(SameRoleAs(i)), 0))),
                           PopulationStd(GroupVals(col, SameRoleAs(i))))
                /\ SumsToZeroUpToRounding(GroupVals(ZName[col], SameRoleAs(i)),
                                          GroupVals(col, SameRoleAs(i)))

\* a saved table with two role groups, one of them with differing damage
\* shares whose z values do not cancel exactly
C12_Witness ==
    /\ pc6 = "saved"
    /\ \E i \in 1..Len(all_df) :
          /\ Standardizable("damage_share", i)
          /\ SameRoleAs(i) # 1..Len(all_df)
          /\ ExactSum(GroupVals("z_damage_share", SameRoleAs(i))).m # 0

\* the four z values of row i, in the order of the weights 35, 30, 25, 10
ZOfRow(i) == <<all_df[i].z_damage_share, all_df[i].z_kill_participation,
               all_df[i].z_cs_per_min, all_df[i].z_vision_per_min>>

WeightPercent == <<35, 30, 25, 10>>

\* the float f with its mantissa multiplied by the integer k (exact)
Scaled(f, k) == [m |-> k * f.m, e |-> f.e]

\* 35 zd + 30 zk + 25 zc + 10 zv, exactly
WeightedSum100(zs) == ExactSum([k \in 1..4 |-> Scaled(zs[k], WeightPercent[k])])

\* 35 |zd| + 30 |zk| + 25 |zc| + 10 |zv|, exactly
WeightedAbs100(zs) ==
    ExactSum([k \in 1..4 |-> Scaled([m |-> AbsInt(zs[k].m), e |-> zs[k].e],
                                    WeightPercent[k])])

\* |x - y| <= 3 * eps * bound for dyadic numbers x, y and bound >= 0,
\* eps = 2^(1 - FloatBits)
WithinRounding(x, y, bound) ==
    DyadicLe(AbsInt(ExactSum(<<x, Scaled(y, -1)>>).m), ExactSum(<<x, Scaled(y, -1)>>).e,
             3 * bound.m, bound.e + 1 - FloatBits)

FourEqual(zs) == zs[1] = zs[2] /\ zs[2] = zs[3] /\ zs[3] = zs[4]

\* C13 as stated: a row whose four z values all equal c has impact score c.
C13_Original_EqualZGivesC ==
    Scored =>
        \A i \in 1..Len(all_df) :
            FourEqual(ZOfRow(i)) => all_df[i].impact_score = ZOfRow(i)[1]

\* C13 (amended): the impact score of every player is
\* 0.35 zd + 0.30 zk + 0.25 zc + 0.10 zv (weights summing to 1) up to the
\* rounding of the floating-point evaluation; so a row whose four z values
\* all equal c has impact score c up to rounding, and exactly 0 when c = 0.
C13_ImpactIsWeightedSum ==
    Scored =>
        \A i \in 1..Len(all_df) :
            /\ WithinRounding(Scaled(all_df[i].impact_score, 100),
                              WeightedSum100(ZOfRow(i)), WeightedAbs100(ZOfRow(i)))
            /\ FourEqual(ZOfRow(i)) =>
                  WithinRounding(all_df[i].impact_score, ZOfRow(i)[1],
                                 [m |-> AbsInt(ZOfRow(i)[1].m), e |-> ZOfRow(i)[1].e])
            /\ (\A k \in 1..4 : ZOfRow(i)[k] = FZero) => all_df[i].impact_score = FZero

\* a saved table with a player whose four z values are one non-zero c and
\* whose impact score is not c
C13_Witness ==
    /\ pc6 = "saved"
    /\ \E i \in 1..Len(all_df) :
          /\ FourEqual(ZOfRow(i))
          /\ ZOfRow(i)[1] # FZero
          /\ all_df[i].impact_score # ZOfRow(i)[1]

\* the rows of df in the (match, team) group of row r
Teammates(df, r) ==
    {j \in 1..Len(df) : df[j].match_id = r.match_id /\ df[j].team_id = r.team_id}

\* one plus the number of teammates of r with a strictly greater value of col
OnePlusGreater(df, r, col) ==
    1 + Cardinality({j \in Teammates(df, r) : FLt(r[col], df[j][col])})

S06Ranked == pc6 \in {"ranked", "saved"}

RankColumns5 ==
    {<<"damage_share", "damage_share_rank_on_team">>,
     <<"kill_participation", "kp_rank_on_team">>,
     <<"gold_share", "gold_share_rank_on_team">>}

\* C14: within every (match, team) group a player's rank is one plus the
\* number of players of the group with a strictly greater value (ties share
\* the lowest rank), every rank lies between 1 and the group size, and every
\* group has a player of rank 1; for the impact rank of S06 and for the three
\* ranks of S05.
C14_MinRankLaw ==
    /\ S06Ranked =>
          \A i \in 1..Len(all_df) :
              /\ all_df[i].impact_rank_on_team
                    = OnePlusGreater(all_df, all_df[i], "impact_score")
              /\ all_df[i].impact_rank_on_team
                    \in 1..Cardinality(Teammates(all_df, all_df[i]))
              /\ \E j \in Teammates(all_df, all_df[i]) :
                    all_df[j].impact_rank_on_team = 1
    /\ pc5 = "ranked" =>
          \A k \in 1..Len(my_ranked[1]) :
              \A c \in RankColumns5 :
                  /\ my_ranked[1][k][c[2]] = OnePlusGreater(in_all[1], my_ranked[1][k], c[1])
                  /\ my_ranked[1][k][c[2]]
                        \in 1..Cardinality(Teammates(in_all[1], my_ranked[1][k]))

\* S05 has ranked a team whose damage shares are 10, 10 and 7 as 1, 1 and 3,
\* or S06 a team with two players tied at rank 1 and the next at rank 3
C14_Witness ==
    \/ /\ pc5 = "ranked"
       /\ Len(in_all[1]) = 3
       /\ Cardinality(Teammates(in_all[1], in_all[1][1])) = 3
       /\ <<in_all[1][1].damage_share, in_all[1][2].damage_share,
             in_all[1][3].damage_share>> = <<V10, V10, V7>>
       /\ Len(my_ranked[1]) = 2
       /\ my_ranked[1][1].damage_share_rank_on_team = 1
       /\ my_ranked[1][2].damage_share_rank_on_team = 3
    \/ /\ pc6 = "saved"
       /\ \E i, j, k \in 1..Len(all_df) :
             /\ i < j
             /\ {j, k} \subseteq Teammates(all_df, all_df[i])
             /\ all_df[i].impact_rank_on_team = 1
             /\ all_df[j].impact_rank_on_team = 1
             /\ all_df[k].impact_rank_on_team = 3

(***************************************************************************)
(* Properties of the expectation model (S08 main)                          *)
(***************************************************************************)
Predicted == pc_cv \in {"predicted", "saved"}

Split == pc_cv \in {"fit", "predicted", "saved"}

\* the rows held out together with row i, and the others
FoldOf(i) == {j \in 1..Len(df8) : test_folds[j] = test_folds[i]}

OtherFolds(i) == {j \in 1..Len(df8) : test_folds[j] # test_folds[i]}

\* C15: cross-validation yields one probability per feature row, in the
\* order of the rows, each between 0 and 1; every row is held out in exactly
\* one fold and its probability comes from a model fitted on the other
\* folds, so on rows that do not include it.
C15_CrossValidatedOutput ==
    Predicted =>
        /\ Len(p_win_cv) = Len(df8)
        /\ \A i \in 1..Len(df8) :
              /\ p_win_cv[i].row = i
              /\ df8[i].p_win_10min = p_win_cv[i].p
              /\ p_win_cv[i].p \in 0..100
              /\ Cardinality({j \in 1..Len(test_indices) : test_indices[j] = i}) = 1
              /\ Cardinality({k \in 0..(N_SPLITS - 1) :
                                 \E j \in 1..Len(TestIndices(test_folds, k)) :
                                     TestIndices(test_folds, k)[j] = i}) = 1
              /\ i \notin p_win_cv[i].train
              /\ p_win_cv[i].train = OtherFolds(i)

\* a finished run whose folds are not in row order and whose probabilities
\* are not all the same
C15_Witness ==
    /\ pc_cv = "saved"
    /\ \E j \in 1..Len(test_indices) : test_indices[j] # j
    /\ \E i, j \in 1..Len(df8) : df8[i].p_win_10min # df8[j].p_win_10min

\* the number of rows of outcome w in fold k
InFold(w, k) ==
    Cardinality({i \in 1..Len(df8) : df8[i].win = w /\ test_folds[i] = k})

\* C16: the rows are split into five folds that are disjoint and cover the
\* table; the wins and the losses are each spread over the folds with counts
\* that differ by at most one; a second run over the same table gives the
\* same folds and the same probabilities.
C16_StratifiedFolds ==
    /\ Split =>
          /\ Len(test_folds) = Len(df8)
          /\ \A i \in 1..Len(df8) : test_folds[i] \in 0..(N_SPLITS - 1)
          /\ \A k1, k2 \in 0..(N_SPLITS - 1) :
                k1 # k2 =>
                  {TestIndices(test_folds, k1)[j] : j \in 1..Len(TestIndices(test_folds, k1))}
                  \cap {TestIndices(test_folds, k2)[j] : j \in 1..Len(TestIndices(test_folds, k2))}
                  = {}
          /\ UNION {{TestIndices(test_folds, k)[j] : j \in 1..Len(TestIndices(test_folds, k))} :
                       k \in 0..(N_SPLITS - 1)} = 1..Len(df8)
          /\ \A w \in BOOLEAN : \A k1, k2 \in 0..(N_SPLITS - 1) :
                InFold(w, k1) - InFold(w, k2) <= 1
          /\ prev_run # <<>> => test_folds = prev_run[1].test_folds
    /\ (pc_cv = "saved" /\ prev_run # <<>>) => out_pred[1] = prev_run[1].out_pred

\* a second finished run, with folds that a shuffle has moved and none empty
C16_Witness ==
    /\ pc_cv = "saved"
    /\ prev_run # <<>>
    /\ mt_seeded[RANDOM_STATE] # <<"keep", "keep">>
    /\ \A k \in 0..(N_SPLITS - 1) : \E i \in 1..Len(df8) : test_folds[i] = k
    /\ \E w \in BOOLEAN : \E k1, k2 \in 0..(N_SPLITS - 1) : InFold(w, k1) # InFold(w, k2)

\* C17: a table of fewer than 30 rows gets the small-sample warning and the
\* run goes on to its end without failing; a table of 30 rows or more gets
\* no warning.
C17_SmallTableWarnsAndCompletes ==
    /\ pc_cv \notin {"start", "features"} => (warned <=> Len(df8) < SMALL_SAMPLE)
    /\ (pc_cv # "start" /\ Len(df8) < SMALL_SAMPLE) => pc_cv # "raised"

\* the place of match id mid in the list of my games
PlaceOf(mid) == CHOOSE k \in 1..Len(match_ids) : match_ids[k] = mid

\* the probability of row i of table t computed from the table alone: the
\* model of the rows outside the fold of row i, applied to row i
HeldOutProba(t, i) ==
    predict_proba(
        LogisticRegressionFit(
            Take(t, IndexWhere(Len(t), {j \in 1..Len(t) : test_folds[j] # test_folds[i]}, 1))),
        t[i])

RECURSIVE ExpectedUpTo(_, _)
\* the sum of p_win over the first n games of d, in hundredths
ExpectedUpTo(d, n) ==
    IF n = 0 THEN 0 ELSE ExpectedUpTo(d, n - 1) + d[n].p_win_10min

\* the luck record m is the one of the games d
IsLuckOf(m, d) ==
    /\ m.games = Len(d)
    /\ m.actual_wins = Cardinality({i \in 1..Len(d) : d[i].win})
    /\ m.expected_wins = ExpectedUpTo(d, Len(d))
    /\ m.luck_diff = 100 * m.actual_wins - m.expected_wins
    /\ d = <<>> => (m.games = 0 /\ m.actual_wins = 0 /\ m.luck_diff = 0)
    /\ (Len(d) = 4 /\ m.actual_wins = 3 /\ \A i \in 1..4 : d[i].p_win_10min = 50)
          => m.luck_diff = 100

\* C19: for the whole table and for every filtered subset of it, the luck
\* aggregator returns the number of won games, the sum of p_win and their
\* difference; the empty subset gives 0 games, 0 wins and luck_diff 0, and
\* four games of probability 0.5 with 3 wins give luck_diff 1.0.
C19_LuckAggregator ==
    pc_dash \in {"measured", "shown"} =>
        /\ IsLuckOf(full_luck[1], dash_df)
        /\ IsLuckOf(filt_luck[1], f_df[1])

\* four games of probability 0.5 with 3 wins, filtered down to no game
C19_Witness ==
    /\ pc_dash = "shown"
    /\ Len(dash_df) = 4
    /\ \A i \in 1..4 : dash_df[i].p_win_10min = 50
    /\ full_luck[1].actual_wins = 3
    /\ full_luck[1].luck_diff = 100
    /\ f_df[1] = <<>>
    /\ filt_luck[1].games = 0

\* the qualitative label of a luck differential (in hundredths)
QualitativeLabel(ld) ==
    IF ld >= 500 THEN "clearly lucky"
    ELSE IF ld <= -500 THEN "clearly unlucky"
    ELSE IF ld >= 250 THEN "kinda lucky"
    ELSE IF ld <= -250 THEN "kinda unlucky"
    ELSE "about as expected"

\* C20: the dashboard labels the luck differential with one of the five
\* qualitative labels, chosen by the thresholds 5 and 2.5.
C20_QualitativeLabel ==
    pc_dash = "shown" => msg[1].text = QualitativeLabel(filt_luck[1].luck_diff)

(***************************************************************************)
(* Properties of failed runs                                               *)
(***************************************************************************)
\* C21: a stage that fails (S06, S08, S09) has written none of its output
\* files: no failed run leaves a part of its outputs behind.
C21_NoPartialOutput ==
    /\ pc6 = "raised" => out_me = <<>>
    /\ pc9 = "raised" => out_scored = <<>>
    /\ (pc_cv = "raised" /\ prev_run = <<>>) => (features_csv = <<>> /\ out_pred = <<>>)

\* the fields a complete participant frame carries
PFFields == {"totalGold", "xp", "minionsKilled", "jungleMinionsKilled"}

\* the errors the feature builder may report for a record it cannot use
MissingParticipant == "ValueError: Could not find my puuid in match participants."

\* C22: a match or timeline record that is malformed or incomplete ends the
\* feature builder with a missing-file or missing-participant report only,
\* never with a raw fault, and no feature row is built from a snapshot whose
\* participant frames lack fields.
C22_MalformedRecordTranslated ==
    /\ (pc8 = "raised" /\ idx8 > 0) => exc = MissingParticipant
    /\ (pc8 = "loop" /\ kills_diff_10 # <<>>) =>
          \A key \in DOMAIN frame10[1].participantFrames :
              PFFields \subseteq DOMAIN frame10[1].participantFrames[key]

(***************************************************************************)
(* The record downloaders                                                  *)
(***************************************************************************)
Ended == dl_pc \in {"done", "raised", "interrupted"}

\* C23: a downloader is idempotent and all-or-nothing per record: a match
\* whose file exists at the start of a run is not fetched and its file is
\* left as it was, a run after a completed run fetches nothing and changes
\* no file, and when a run has ended (also by an interruption or a failed
\* fetch) every match has a complete record or no file, never a partial one.
C23_IdempotentAllOrNothing ==
    /\ \A id \in DOMAIN store :
          Exists(store0, id) =>
              /\ store[id] = store0[id]
              /\ \A k \in 1..Len(run_fetches) : run_fetches[k] # id
    /\ (dl_run > 1 /\ prev_end = "done") => (run_fetches = <<>> /\ store = store0)
    /\ Ended => \A id \in DOMAIN store : store[id] \in {Absent, CompleteFile(id)}

IsRateLimited(r) == ~r.failed /\ r.status = RATE_LIMITED
LastResponse == rg_log[Len(rg_log)]
RateLimitedCount == Cardinality({k \in 1..Len(rg_log) : IsRateLimited(rg_log[k])})

RiotGetSteps ==
    \* at most `retries` requests, and only a 429 is followed by another one
    /\ Len(rg_log) <= retries
    /\ \A k \in 1..(Len(rg_log) - 1) : IsRateLimited(rg_log[k])
    \* every 429 was waited for
    /\ rg_waits = RateLimitedCount
    /\ rg_log # <<>> =>
          \* below 400: the JSON body is returned at once
          /\ (~LastResponse.failed /\ LastResponse.status < ERROR_STATUS /\ LastResponse.json) =>
                 (rg_result # <<>> /\ dl_pc # "raised" /\ dl_pc # "fetch")
          \* 400 or more, other than 429: the call raises at once
          /\ (~LastResponse.failed /\ LastResponse.status >= ERROR_STATUS
                /\ LastResponse.status # RATE_LIMITED) =>
                 (dl_pc = "raised" /\ dl_exc = "raise:Request failed" /\ rg_result = <<>>)
          \* a value is returned only for an answer below 400
          /\ rg_result # <<>> => (~LastResponse.failed /\ LastResponse.status < ERROR_STATUS)
    \* every attempt rate limited: nothing is returned, and the error that
    \* follows is the too-many-retries one
    /\ RateLimitedCount = retries => (rg_result = <<>> /\ dl_pc \in {"fetch", "raised", "interrupted"})
    /\ dl_exc = "raise:Too many retries" => (dl_pc = "raised" /\ RateLimitedCount = retries)

\* C24: riot_get ends after at most `retries` (3 by default) requests: an
\* answer with a status below 400 returns its JSON body at once, a 429 is
\* waited for and followed by the next attempt, any other status of 400 or
\* more raises at once, and when every attempt was rate limited the call
\* raises the too-many-retries error and returns nothing.
C24_RiotGetBounded ==
    /\ []RiotGetSteps
    /\ (dl_pc = "fetch") ~> (dl_pc # "fetch")
    /\ (dl_pc = "fetch" /\ RateLimitedCount = retries) ~>
           (dl_exc = "raise:Too many retries" \/ dl_pc = "interrupted")

C24_Witness ==
    /\ dl_exc = "raise:Too many retries"
    /\ Len(rg_log) = DEFAULT_RETRIES
    /\ rg_waits = DEFAULT_RETRIES

HadNoFile(id) == ~Exists(store0, id)
MissingAtStart == SelectSeq(dl_list[1], HadNoFile)

FetchThenWrite ==
    \* a file that changed in this run belongs to a match whose fetch returned
    /\ \A id \in DOMAIN store :
          store[id] # store0[id] =>
              \E k \in 1..Len(run_fetches) :
                  /\ run_fetches[k] = id
                  /\ (k < Len(run_fetches) \/ rg_result # <<>>)
    \* a failed fetch: the matches before it have their files, the failed one
    \* and the later ones have what they had at the start
    /\ (dl_pc = "raised" /\ dl_list # <<>>) =>
          /\ rg_result = <<>>
          /\ \A k \in 1..Len(dl_list[1]) :
                IF k < dl_i
                THEN Exists(store, dl_list[1][k])
                ELSE store[dl_list[1][k]] = store0[dl_list[1][k]]
          /\ ~Exists(store, dl_list[1][dl_i])
    \* the fetches of a run are, in order, the matches that had no file at its
    \* start: a prefix while it runs, all of them when it is done
    /\ dl_list # <<>> =>
          /\ Len(run_fetches) <= Len(MissingAtStart)
          /\ run_fetches = SubSeq(MissingAtStart, 1, Len(run_fetches))
          /\ dl_pc = "done" => run_fetches = MissingAtStart

StoreStep ==
    \* a file is written only in the step after riot_get has returned
    /\ store' # store => (rg_result # <<>> /\ dl_pc \in {"fetched", "writing"})
    \* no file is ever removed
    /\ \A id \in DOMAIN store : Exists(store, id) => Exists(store', id)
    \* after a failed fetch nothing happens but a new run
    /\ dl_pc = "raised" => dl_run' = dl_run + 1

\* C29: a file is written for a match only after its fetch returned; when a
\* fetch fails the run stops there, the files saved before stay, and neither
\* the failed match nor a later one gets a file; a later run fetches exactly
\* the matches that have no file.
C29_FetchBeforeWriteAndResume == []FetchThenWrite /\ [][StoreStep]_vars

C29_Witness ==
    /\ dl_run = 2
    /\ prev_end = "raised"
    /\ dl_pc = "done"
    /\ run_fetches = <<2>>
    /\ store0[1] = CompleteFile(1)
    /\ store[2] = CompleteFile(2)

(***************************************************************************)
(* S09 / app.py: the merge                                                 *)
(***************************************************************************)
IdsOf(table) == {table[i].match_id : i \in 1..Len(table)}
RowsOf(table, id) == {i \in 1..Len(table) : table[i].match_id = id}

InnerJoinOf(scored, L, R) ==
    \* a match has a row iff it is in both tables, and then one row only
    /\ IdsOf(scored) = IdsOf(L) \cap IdsOf(R)
    /\ \A id \in IdsOf(scored) : Cardinality(RowsOf(scored, id)) = 1
    \* the row carries the impact row's win and impact_score and the
    \* probability row's p_win_10min
    /\ \A i \in 1..Len(scored) :
          \E l \in RowsOf(L, scored[i].match_id), r \in RowsOf(R, scored[i].match_id) :
              /\ scored[i].win = L[l].win
              /\ scored[i].impact_score = L[l].impact_score
              /\ scored[i].p_win_10min = R[r].p_win_10min

\* C25: the scored table is the inner join of the impact table and the
\* probability table on match_id: a match has a row iff it is in both
\* tables, and the row carries impact_score and win of the match's impact
\* row and p_win_10min of its probability row.
C25_ScoredIsInnerJoin ==
    /\ pc9 \in {"merged", "bucketed", "saved"} =>
          InnerJoinOf(df9, impact_df[1], probs_df[1])
    /\ out_scored # <<>> => InnerJoinOf(out_scored[1], impact_df[1], probs_df[1])

\* two impact rows, one probability row for the second match: one scored row
C25_Witness ==
    /\ pc9 = "saved"
    /\ Len(impact_df[1]) = 2
    /\ Len(probs_df[1]) = 1
    /\ probs_df[1][1].match_id = 2
    /\ Len(out_scored[1]) = 1
    /\ out_scored[1][1].match_id = 2
    /\ out_scored[1][1].win = impact_df[1][2].win
    /\ out_scored[1][1].p_win_10min = probs_df[1][1].p_win_10min

(***************************************************************************)
(* The classifier: outcome and expectation                                 *)
(***************************************************************************)
WinLabels == {"CLUTCH WIN", "LUCKY WIN", "UPSET WIN", "EXPECTED WIN", "TOSS-UP WIN"}
LossLabels == {"THROW", "UNLUCKY LOSS", "UPSET LOSS", "EXPECTED LOSS", "TOSS-UP LOSS"}

AgreesWithOutcome(label, w) ==
    /\ label \in WinLabels \cup LossLabels
    /\ label \in WinLabels <=> w
    /\ label \in LossLabels <=> ~w

\* C26: the label of a row agrees with its outcome: it names a win iff the
\* win flag is true and a loss iff it is false, for bucket_game and for
\* bucket_rule.
C26_LabelAgreesWithOutcome ==
    /\ b_game # <<>> => AgreesWithOutcome(b_game[1], b_in.win)
    /\ b_rule # <<>> => AgreesWithOutcome(b_rule[1], b_in.win)

\* a lost toss-up with a high impact score, labelled by both functions
C26_Witness ==
    /\ b_in = [p_win |-> 50, win |-> FALSE, impact |-> 60]
    /\ b_game = <<"TOSS-UP LOSS">>
    /\ b_rule = <<"TOSS-UP LOSS">>

TossUpLabels == {"TOSS-UP WIN", "TOSS-UP LOSS"}
ExpectedLabels == {"EXPECTED WIN", "EXPECTED LOSS"}
HighExp == b_in.p_win >= HIGH_EXP
LowExp == b_in.p_win <= LOW_EXP
Contradicted == (b_in.win /\ LowExp) \/ (~b_in.win /\ HighExp)

\* the label is what the function gives for the row's expectation and
\* outcome with any impact score in place of the row's
SameForEveryImpactGame(label) ==
    \A i \in ImpactValues : bucket_game(b_in.p_win, b_in.win, i) = label
SameForEveryImpactRule(label) ==
    \A i \in ImpactValues : bucket_rule(b_in.p_win, b_in.win, i) = label

ExpectationDecides(label) ==
    \* toss-up exactly strictly between the thresholds
    /\ label \in TossUpLabels <=> (LOW_EXP < b_in.p_win /\ b_in.p_win < HIGH_EXP)
    \* expected exactly when the outcome is the expected one
    /\ label \in ExpectedLabels <=> ((b_in.win /\ HighExp) \/ (~b_in.win /\ LowExp))

\* C27: high and low expectation exclude each other, and so do high and low
\* impact; a row is a toss-up exactly when 0.40 < p_win < 0.65, whatever its
\* impact; the expected labels do not depend on impact; impact changes the
\* label only when the outcome contradicts the expectation.
C27_ExpectationBands ==
    /\ ~(HighExp /\ LowExp)
    /\ ~(b_in.impact >= HIGH_IMP /\ b_in.impact <= LOW_IMP)
    /\ b_game # <<>> =>
          /\ ExpectationDecides(b_game[1])
          /\ ~Contradicted => SameForEveryImpactGame(b_game[1])
    /\ b_rule # <<>> =>
          /\ ExpectationDecides(b_rule[1])
          /\ ~Contradicted => SameForEveryImpactRule(b_rule[1])

\* a win at 0.65 exactly with a low impact score: expected, not a toss-up
C27_Witness ==
    /\ b_in = [p_win |-> 65, win |-> TRUE, impact |-> -60]
    /\ b_game = <<"EXPECTED WIN">>
    /\ b_rule = <<"EXPECTED WIN">>

(***************************************************************************)
(* S08: the kill differential                                              *)
(***************************************************************************)
KillsDone == pc8 = "loop" /\ kills_diff_10 # <<>>

RECURSIVE AllEvents(_)
\* the events of all frames, one after the other
AllEvents(frames) ==
    IF frames = <<>> THEN <<>>
    ELSE GetOr(Head(frames), "events", <<>>) \o AllEvents(Tail(frames))

Reversed(seq) == [i \in 1..Len(seq) |-> seq[Len(seq) + 1 - i]]
InOneFrame(evs) == [info |-> [frames |-> <<[events |-> evs]>>]]
OnePerFrame(evs) == [info |-> [frames |-> [i \in 1..Len(evs) |-> [events |-> <<evs[i]>>]]]]

\* a champion kill up to 10:00 by a participant of the given side
KillOf(ev, side) ==
    /\ Get(ev, "type") = <<"CHAMPION_KILL">>
    /\ "timestamp" \in DOMAIN ev
    /\ ev.timestamp <= TARGET_MS
    /\ "killerId" \in DOMAIN ev
    /\ ev.killerId # 0
    /\ Get(pid_to_team, ev.killerId) = <<side>>
KillCount(evs, side) == Cardinality({i \in 1..Len(evs) : KillOf(evs[i], side)})
IsOnASide(ev) == KillOf(ev, 100) \/ KillOf(ev, 200)

\* C28: the kill differential depends only on the multiset of kill events:
\* it is the number of kills of the target's side minus that of the other
\* side among the events of all frames (also when the snapshot is the last
\* frame of a short timeline), the same with the events reversed, put in one
\* frame or one per frame; events whose killer is on neither side can be left
\* out; with the other side as target the result is negated.
C28_KillDifferential ==
    KillsDone =>
        LET evs == AllEvents(Frames(timeline_json[1]))
            map == pid_to_team
            side == my_team[1]
        IN  /\ side \in {100, 200}
            /\ kills_diff_10[1] = KillCount(evs, side) - KillCount(evs, EnemyOf(side))
            /\ kills_diff_10[1] = kills_diff_up_to_10min(InOneFrame(Reversed(evs)), map, side)
            /\ kills_diff_10[1] = kills_diff_up_to_10min(OnePerFrame(evs), map, side)
            /\ kills_diff_10[1] =
                   kills_diff_up_to_10min(InOneFrame(SelectSeq(evs, IsOnASide)), map, side)
            /\ kills_diff_up_to_10min(timeline_json[1], map, EnemyOf(side)) = -kills_diff_10[1]

\* a two-frame timeline (the snapshot is its last frame): a kill by a
\* participant of neither side in the first frame, a kill by the other side
\* in the second
C28_Witness ==
    /\ KillsDone
    /\ Len(Frames(timeline_json[1])) = 2
    /\ Frames(timeline_json[1])[1].events = <<KillBy(TARGET_MS, 3)>>
    /\ Frames(timeline_json[1])[2].events = <<KillBy(TARGET_MS - 1, 2)>>
    /\ kills_diff_10 = <<-1>>

(***************************************************************************)
(* S08: the participant behind a feature row                               *)
(***************************************************************************)
Sides == {100, 200}

\* C30: in every feature row that is built, the win flag and the team side
\* are those of one participant, the first whose puuid is the target's; the
\* side is 100 or 200 and the opposing side is the other one of the two, and
\* the row's differentials are the target side's total minus the opposing
\* side's.
C30_OneParticipantBehindRow ==
    KillsDone =>
        LET p == LastParticipants[FirstTarget]
            row == rows[Len(rows)]
            enemy_team == EnemyOf(my_team[1])
        IN  /\ HasTarget
            /\ my_team = <<p.teamId>>
            /\ win = <<GetOr(p, "win", FALSE) = TRUE>>
            /\ row.win = win[1]
            /\ my_team[1] \in Sides
            /\ enemy_team \in Sides \ {my_team[1]}
            /\ row.gold_diff_10 = totals10[1][p.teamId].gold - totals10[1][enemy_team].gold
            /\ row.xp_diff_10 = totals10[1][p.teamId].xp - totals10[1][enemy_team].xp
            /\ row.cs_diff_10 = totals10[1][p.teamId].cs - totals10[1][enemy_team].cs

\* two participants with the target's puuid, on opposite sides and with
\* opposite outcomes: the row follows the first
C30_Witness ==
    /\ KillsDone
    /\ Len(LastParticipants) = 2
    /\ LastParticipants[1].puuid = Me
    /\ LastParticipants[2].puuid = Me
    /\ LastParticipants[1].teamId = 200
    /\ LastParticipants[2].teamId = 100
    /\ LastParticipants[1].win = FALSE
    /\ LastParticipants[2].win = TRUE
    /\ rows[Len(rows)].win = FALSE
    /\ my_team = <<200>>

=============================================================================
